---- MODULE Spec2Model ----
(***************************************************************************)
(* Scan orchestration of ClamAV-API: the gRPC operations (GRPCServer        *)
(* HealthCheck, ScanFile, ScanStream, ScanMultiple, scanData), the scan    *)
(* executor (performScan) and the REST handlers (handleScan,               *)
(* handleStreamScan, handleHealthCheck, respondScanError).                 *)
(*                                                                         *)
(* SpecIngest   one gRPC call (unary or streaming session)                 *)
(* SpecScan     one performScan call racing result, timeout, cancellation  *)
(* SpecRest     one REST request and the performScan call it makes         *)
(* SpecRequest  one request on either transport                            *)
(***************************************************************************)
EXTENDS Integers, Naturals, Sequences, FiniteSets, TLC

\* ------------------------------------------------------------------ bounds
\* config.MaxContentLength, scaled down (the ceiling, in bytes)
MaxContentLength == 2
\* largest chunk payload a client sends, in bytes
MaxChunkSize == 1
\* number of messages a client sends in one session
MaxChunks == 3
\* requests one transport takes during the life of the process
MaxRequests == 2
\* width of int64 and of time.Duration, scaled down (bits, two's complement)
IntBits == 4
\* time.Second, scaled down (ticks of a time.Duration)
Second == 2
\* goroutines that use the shared daemon handle
NumGoroutines == 2
\* calls of resetClamdClient during one run
MaxResets == 2
\* ticks of the clock during one scan
MaxTicks == 2
\* messages a client sends in one of the concurrent sessions
SessionChunks == 2

\* the empty filename; a filename is a sequence of characters
NoName == <<>>

VARIABLES
    \* ---- streaming session (grpc_server.go)
    rpc,        \* "none" | "ScanStream" | "ScanMultiple"
    pc,         \* position of the handler
    buffer,     \* bytes.Buffer: sequence of bytes, a byte is <<message index, offset>>
    filename,   \* filename local
    totalSize,  \* totalSize local
    recvd,      \* messages stream.Recv() has returned so far
    eof,        \* stream.Recv() has returned io.EOF
    ctxDone,    \* stream.Context() is canceled (client cancel, deadline, broken transport)
    scanned,    \* byte sources handed to clam.ScanStream, in call order
    outcome,    \* how the most recent scan attempt ended: "" | "unavailable" | a daemon status | "timeout" | "canceled"
    pending,    \* ScanMultiple: the response built from scanData's return, not yet sent
    sentCount,  \* number of responses delivered by stream.Send / stream.SendAndClose
    lastSent,   \* the response delivered most recently
    result,     \* status the RPC handler returned
    \* ---- performScan (scanner)
    psPc,         \* "idle" | "call" | "select" | "done"
    psTimeout,    \* timeout argument
    psPreCanceled,\* ctx was already canceled when performScan was called
    psCtxDone,    \* ctx.Done() is closed
    psSlow,       \* the timeout is shorter than any possible daemon response
    psStarted,    \* clam.ScanStream returned a response channel
    psTimerFired, \* time.After(timeout) has a value
    psResp,       \* response channel: "none" | "pending" | "ready" | "taken" | "closed"
    psStatus,     \* status the daemon reports on the channel
    psTakenBy,    \* who received the daemon's result: "none" | "caller" | "drain"
    psDrain,      \* drain goroutine: "none" | "running" | "finished"
    psRet,        \* (result, error) performScan returned
    psSite,       \* the function that waits for the scan
    psDesc,       \* the description in the daemon's answer
    psNow,        \* the clock, in ticks
    psStartTime,  \* startTime := time.Now()
    psRetInfo,    \* Description and ScanTime of what was returned
    psCalls,      \* calls of clam.ScanStream made by this call
    psCallerRecv, \* values the caller has received from the response channel
    psDone,       \* the done channel of this call: whether it is open, and close(done) calls so far
    \* ---- GRPCServer.ScanFile (grpc_server.go)
    dataSize,     \* int64(len(req.Data)), -1 before the call
    reqFilename,  \* req.Filename
    unaryResp,    \* the response message a unary RPC returned
    ping,         \* what pingClamd() returned to a health operation: "none" | "ok" | "error"
    \* ---- REST handlers (handlers.go)
    hOp,          \* "none" | "scan" | "stream_scan" | "health"
    hPc,          \* "idle" | "scanning" | "done"
    hFormOk,      \* handleScan: c.Request.FormFile("file") returned a file
    hSize,        \* header.Size (handleScan) or c.Request.ContentLength (handleStreamScan)
    hBody,        \* number of bytes the request body actually holds
    hReader,      \* number of bytes the reader handed to performScan can yield, -1 when none was handed
    scansInProgress,   \* gauge
    scanRequestsTotal, \* counter vector, by <<method, status>>
    healthCheckStatus, \* gauge, -1 while never set
    hResp,        \* c.JSON(code, body): [code, status, message]
    \* ---- process supervisor (main, startRESTServer, startGRPCServer)
    mainPc,       \* position of main
    proc,         \* "running" | "exit0" | "exit1": the process and its exit code
    httpSrv,      \* REST server: "none" | "starting" | "serving" | "failed" | "draining" | "closed"
    grpcSrv,      \* gRPC server: "none" | "nil" | "serving" | "failed" | "draining" | "stopped"
    errChan,      \* buffered error channel: the errors sent and not yet received
    sigChan,      \* a termination signal is pending
    deadline,     \* shutdownCtx: "none" | "set" | "expired"
    inflight,     \* requests being served, by transport
    served,       \* requests that ran to their end, by transport
    cut,          \* requests ended by a forced stop or by the process exiting, by transport
    reqFailures,  \* requests that ended in a request-level failure
    \* configuration (config.go)
    config,       \* the package variable config once parseConfig has filled it
    stderr,       \* what parseConfig wrote to os.Stderr
    env,          \* the flags and environment the process was started with
    \* the shared daemon handle (config.go)
    clamdClient,  \* the package variable clamdClient
    clamdOnce,    \* TRUE when clamdOnce has run its function
    clamdMu,      \* the goroutine that holds clamdMu, 0 when it is free
    gPc,          \* where each goroutine is in getClamdClient or resetClamdClient
    gRet,         \* what each goroutine's last getClamdClient returned
    built,        \* clamd.NewClamd calls made through clamdOnce since the last reset
    resets,       \* resetClamdClient calls completed
    swapped,      \* config.ClamdUnixSocket was changed after the last reset
    handles,      \* instances constructed so far
    \* concurrent streaming sessions (grpc_server.go)
    session       \* the local variables of each session's handler, and what it has sent

ingestVars == <<rpc, pc, buffer, filename, totalSize, recvd, eof, ctxDone,
                scanned, outcome, pending, sentCount, lastSent, result>>
scanAux == <<psSite, psDesc, psNow, psStartTime, psRetInfo, psCalls, psCallerRecv, psDone>>
scanVars == <<psPc, psTimeout, psPreCanceled, psCtxDone, psSlow, psStarted,
              psTimerFired, psResp, psStatus, psTakenBy, psDrain, psRet, scanAux>>
unaryVars == <<dataSize, reqFilename, unaryResp, ping>>
restVars == <<hOp, hPc, hFormOk, hSize, hBody, hReader, scansInProgress,
              scanRequestsTotal, healthCheckStatus, hResp>>
supVars == <<mainPc, proc, httpSrv, grpcSrv, errChan, sigChan, deadline, inflight, served, cut,
             reqFailures>>
cfgVars == <<config, stderr, env>>
clientVars == <<clamdClient, clamdOnce, clamdMu, gPc, gRet, built, resets, swapped, handles>>
sessVars == <<session>>
otherVars == <<cfgVars, clientVars, sessVars, ingestVars, scanVars, unaryVars, restVars>>
otherClientVars == <<cfgVars, supVars, sessVars, ingestVars, scanVars, unaryVars, restVars>>
sysVars == <<supVars, cfgVars, clientVars, sessVars>>
vars == <<ingestVars, scanVars, unaryVars, restVars, sysVars>>

\* ------------------------------------------------------------- messages
\* what a client chooses for a message: the length of Chunk, whether Filename
\* is set, IsLast
Chunks == [size : 0..MaxChunkSize, named : BOOLEAN, last : BOOLEAN]

\* pb.ScanStreamRequest, the i-th message of the session. A filename that is
\* set is one no other message carries, so that a response's filename tells
\* which message it was taken from.
Request(i, c) == [size |-> c.size, fname |-> IF c.named THEN <<i>> ELSE NoName, last |-> c.last]

\* the bytes of req.Chunk of the i-th message of the session
Payload(i, c) == [k \in 1..c.size |-> <<i, k>>]

NoResponse == [status |-> "", message |-> "", filename |-> NoName]

\* ---------------------------------------------------------------- Init
InitIngest ==
    /\ rpc = "none"
    /\ pc = "idle"
    /\ buffer = <<>>
    /\ filename = NoName
    /\ totalSize = 0
    /\ recvd = <<>>
    /\ eof = FALSE
    /\ ctxDone = FALSE
    /\ scanned = <<>>
    /\ outcome = ""
    /\ pending = NoResponse
    /\ sentCount = 0
    /\ lastSent = NoResponse
    /\ result = [code |-> "none", msg |-> ""]

\* ------------------------------------------------ Stream Ingestor helpers
\* the size test made on the counter alone, as if after the append
ExceedsLimitAfterAppend(total, chunkSize) == total > MaxContentLength

\* the size test off by one
ExceedsLimitOffByOne(total, chunkSize) == total + chunkSize > MaxContentLength + 1

\* the size test of both handlers: totalSize+chunkSize > config.MaxContentLength
ExceedsLimit(total, chunkSize) == total + chunkSize > MaxContentLength

\* every non-empty filename overwrites the stored one
StoreFilenameLatest(cur, reqName) == IF reqName # NoName THEN reqName ELSE cur

\* "Store filename from first chunk"
StoreFilename(cur, reqName) == IF cur = NoName /\ reqName # NoName THEN reqName ELSE cur

\* status.Errorf(code, msg) / nil returned by a handler
Status(code, msg) == [code |-> code, msg |-> msg]
NoStatus == Status("none", "")

\* a response that leaves Filename unset
ScanResponseNoName(st, fname) == [status |-> st, message |-> "description", filename |-> NoName]

\* pb.ScanResponse built from a daemon result (Status, Message, Filename)
ScanResponse(st, fname) == [status |-> st, message |-> "description", filename |-> fname]

\* pb.ScanResponse ScanMultiple builds from an error of scanData
ErrorResponse(errMsg, fname) == [status |-> "ERROR", message |-> errMsg, filename |-> fname]

\* a reset that forgets the counter
ResetKeepsCounter ==
    /\ buffer' = <<>>
    /\ filename' = NoName
    /\ totalSize' = totalSize

\* "Reset for next file"
ResetForNextFile ==
    /\ buffer' = <<>>
    /\ filename' = NoName
    /\ totalSize' = 0

\* statuses the daemon can report for a scan
DaemonStatuses == {"OK", "FOUND", "ERROR"}

\* ------------------------------------------------------- session start
\* the gRPC runtime invokes the handler of a new stream
StartRPC(r) ==
    /\ pc = "idle" /\ hOp = "none"
    /\ rpc' = r
    /\ pc' = "recv"
    /\ UNCHANGED <<outcome, buffer, filename, totalSize, recvd, eof, ctxDone, scanned,
                   pending, sentCount, lastSent, result, scanVars, unaryVars, restVars, sysVars>>

\* the stream's context is canceled while the handler runs
CtxCancel ==
    /\ pc \in {"recv", "scan", "select", "send"}
    /\ ~ctxDone
    /\ ctxDone' = TRUE
    /\ UNCHANGED <<outcome, rpc, pc, buffer, filename, totalSize, recvd, eof, scanned,
                   pending, sentCount, lastSent, result, scanVars, unaryVars, restVars, sysVars>>

\* ------------------------------------------------------------ ScanStream
\* a receive loop that goes on reading after the last chunk
AfterWriteKeepsReading(isLast) == "recv"

\* if req.IsLast { break }: leave the receive loop for the scan
AfterWrite(isLast) == IF isLast THEN "scan" ELSE "recv"

\* stream.Recv() returns a message: one iteration of the receive loop
StreamRecvChunk(c) ==
    /\ rpc = "ScanStream" /\ pc = "recv"
    /\ Len(recvd) < MaxChunks
    /\ recvd' = Append(recvd, Request(Len(recvd) + 1, c))
    /\ filename' = StoreFilename(filename, Request(Len(recvd) + 1, c).fname)
    /\ IF ExceedsLimit(totalSize, c.size)
         THEN /\ result' = Status("InvalidArgument", "file too large")
              /\ pc' = "done"
              /\ UNCHANGED <<buffer, totalSize>>
         ELSE /\ buffer' = buffer \o Payload(Len(recvd) + 1, c)
              /\ totalSize' = totalSize + c.size
              /\ pc' = AfterWrite(c.last)
              /\ UNCHANGED result
    /\ UNCHANGED <<outcome, rpc, eof, ctxDone, scanned, pending, sentCount, lastSent, scanVars, unaryVars, restVars, sysVars>>

\* io.EOF with unfinished data treated as an error
StreamRecvEOFStrict ==
    /\ rpc = "ScanStream" /\ pc = "recv"
    /\ eof' = TRUE
    /\ IF buffer # <<>>
         THEN pc' = "done" /\ result' = Status("InvalidArgument", "incomplete file")
         ELSE pc' = "scan" /\ UNCHANGED result
    /\ UNCHANGED <<outcome, rpc, buffer, filename, totalSize, recvd, ctxDone, scanned,
                   pending, sentCount, lastSent, scanVars, unaryVars, restVars, sysVars>>

\* stream.Recv() returns io.EOF: "Client finished sending", leave the loop
StreamRecvEOF ==
    /\ rpc = "ScanStream" /\ pc = "recv"
    /\ eof' = TRUE
    /\ pc' = "scan"
    /\ UNCHANGED <<outcome, rpc, buffer, filename, totalSize, recvd, ctxDone, scanned,
                   pending, sentCount, lastSent, result, scanVars, unaryVars, restVars, sysVars>>

\* stream.Recv() returns another error
StreamRecvError ==
    /\ rpc = "ScanStream" /\ pc = "recv"
    /\ ctxDone
    /\ result' = Status("Internal", "failed to receive chunk")
    /\ pc' = "done"
    /\ UNCHANGED <<outcome, rpc, buffer, filename, totalSize, recvd, eof, ctxDone,
                   scanned, pending, sentCount, lastSent, scanVars, unaryVars, restVars, sysVars>>

\* clam.ScanStream(reader, done) on the accumulated data
StreamScanCall(up) ==
    /\ rpc = "ScanStream" /\ pc = "scan"
    /\ scanned' = Append(scanned, buffer)
    /\ IF up
         THEN pc' = "select" /\ UNCHANGED result
         ELSE pc' = "done" /\ result' = Status("Internal", "scan failed")
    /\ outcome' = IF up THEN outcome ELSE "unavailable"
    /\ UNCHANGED <<rpc, buffer, filename, totalSize, recvd, eof, ctxDone,
                   pending, sentCount, lastSent, scanVars, unaryVars, restVars, sysVars>>

\* case result := <-response
StreamSelectResult(st) ==
    /\ rpc = "ScanStream" /\ pc = "select"
    /\ pc' = "done"
    /\ IF st = "ERROR"
         THEN result' = Status("Internal", "scan error") /\ UNCHANGED <<sentCount, lastSent>>
         ELSE IF ctxDone
                THEN result' = Status("SendError", "transport") /\ UNCHANGED <<sentCount, lastSent>>
                ELSE /\ sentCount' = sentCount + 1
                     /\ lastSent' = ScanResponse(st, filename)
                     /\ result' = Status("OK", "")
    /\ outcome' = st
    /\ UNCHANGED <<rpc, buffer, filename, totalSize, recvd, eof, ctxDone,
                   scanned, pending, scanVars, unaryVars, restVars, sysVars>>

\* case <-time.After(config.ScanTimeout)
StreamSelectTimeout ==
    /\ rpc = "ScanStream" /\ pc = "select"
    /\ pc' = "done"
    /\ result' = Status("DeadlineExceeded", "scan operation timed out")
    /\ outcome' = "timeout"
    /\ UNCHANGED <<rpc, buffer, filename, totalSize, recvd, eof, ctxDone,
                   scanned, pending, sentCount, lastSent, scanVars, unaryVars, restVars, sysVars>>

\* case <-ctx.Done()
StreamSelectCanceled ==
    /\ rpc = "ScanStream" /\ pc = "select"
    /\ ctxDone
    /\ pc' = "done"
    /\ result' = Status("Canceled", "request canceled by client")
    /\ outcome' = "canceled"
    /\ UNCHANGED <<rpc, buffer, filename, totalSize, recvd, eof, ctxDone,
                   scanned, pending, sentCount, lastSent, scanVars, unaryVars, restVars, sysVars>>

\* ---------------------------------------------------------- ScanMultiple
\* stream.Recv() returns a message: one iteration of the loop, up to the
\* call of scanData when the message is the last chunk of its file
MultiRecvChunk(c) ==
    /\ rpc = "ScanMultiple" /\ pc = "recv"
    /\ Len(recvd) < MaxChunks
    /\ recvd' = Append(recvd, Request(Len(recvd) + 1, c))
    /\ IF ExceedsLimit(totalSize, c.size)
         THEN /\ result' = Status("InvalidArgument", "file too large")
              /\ pc' = "done"
              /\ UNCHANGED <<buffer, filename, totalSize>>
         ELSE /\ filename' = StoreFilename(filename, Request(Len(recvd) + 1, c).fname)
              /\ buffer' = buffer \o Payload(Len(recvd) + 1, c)
              /\ totalSize' = totalSize + c.size
              /\ pc' = IF c.last THEN "scan" ELSE "recv"
              /\ UNCHANGED result
    /\ UNCHANGED <<outcome, rpc, eof, ctxDone, scanned, pending, sentCount, lastSent, scanVars, unaryVars, restVars, sysVars>>

\* stream.Recv() returns io.EOF: return nil
MultiRecvEOF ==
    /\ rpc = "ScanMultiple" /\ pc = "recv"
    /\ eof' = TRUE
    /\ pc' = "done"
    /\ result' = Status("OK", "")
    /\ UNCHANGED <<outcome, rpc, buffer, filename, totalSize, recvd, ctxDone, scanned,
                   pending, sentCount, lastSent, scanVars, unaryVars, restVars, sysVars>>

\* stream.Recv() returns another error
MultiRecvError ==
    /\ rpc = "ScanMultiple" /\ pc = "recv"
    /\ ctxDone
    /\ result' = Status("Internal", "failed to receive chunk")
    /\ pc' = "done"
    /\ UNCHANGED <<outcome, rpc, buffer, filename, totalSize, recvd, eof, ctxDone,
                   scanned, pending, sentCount, lastSent, scanVars, unaryVars, restVars, sysVars>>

\* a file without bytes turned away like an empty ScanFile payload
MultiScanCallRejectsEmpty(up) ==
    /\ rpc = "ScanMultiple" /\ pc = "scan"
    /\ IF buffer = <<>>
         THEN /\ result' = Status("InvalidArgument", "file data is required")
              /\ pc' = "done"
              /\ UNCHANGED <<scanned, pending, outcome>>
         ELSE /\ scanned' = Append(scanned, buffer)
              /\ IF up
                   THEN pc' = "select" /\ UNCHANGED pending
                   ELSE pc' = "send" /\ pending' = ErrorResponse("scan failed", filename)
              /\ outcome' = IF up THEN outcome ELSE "unavailable"
              /\ UNCHANGED result
    /\ UNCHANGED <<rpc, buffer, filename, totalSize, recvd, eof, ctxDone,
                   sentCount, lastSent, scanVars, unaryVars, restVars, sysVars>>

\* scanData: clam.ScanStream(reader, done) on the accumulated data
MultiScanCall(up) ==
    /\ rpc = "ScanMultiple" /\ pc = "scan"
    /\ scanned' = Append(scanned, buffer)
    /\ IF up
         THEN pc' = "select" /\ UNCHANGED pending
         ELSE pc' = "send" /\ pending' = ErrorResponse("scan failed", filename)
    /\ outcome' = IF up THEN outcome ELSE "unavailable"
    /\ UNCHANGED <<rpc, buffer, filename, totalSize, recvd, eof, ctxDone,
                   sentCount, lastSent, result, scanVars, unaryVars, restVars, sysVars>>

\* scanData: case result := <-response
MultiSelectResult(st) ==
    /\ rpc = "ScanMultiple" /\ pc = "select"
    /\ pc' = "send"
    /\ pending' = IF st = "ERROR"
                    THEN ErrorResponse("scan error", filename)
                    ELSE ScanResponse(st, filename)
    /\ outcome' = st
    /\ UNCHANGED <<rpc, buffer, filename, totalSize, recvd, eof, ctxDone,
                   scanned, sentCount, lastSent, result, scanVars, unaryVars, restVars, sysVars>>

\* a timeout that ends the session as it ends ScanStream
MultiSelectTimeoutAborts ==
    /\ rpc = "ScanMultiple" /\ pc = "select"
    /\ pc' = "done"
    /\ outcome' = "timeout"
    /\ result' = Status("DeadlineExceeded", "scan operation timed out")
    /\ UNCHANGED <<rpc, buffer, filename, totalSize, recvd, eof, ctxDone,
                   scanned, pending, sentCount, lastSent, scanVars, unaryVars, restVars, sysVars>>

\* scanData: case <-time.After(config.ScanTimeout)
MultiSelectTimeout ==
    /\ rpc = "ScanMultiple" /\ pc = "select"
    /\ pc' = "send"
    /\ pending' = ErrorResponse("scan operation timed out", filename)
    /\ outcome' = "timeout"
    /\ UNCHANGED <<rpc, buffer, filename, totalSize, recvd, eof, ctxDone,
                   scanned, sentCount, lastSent, result, scanVars, unaryVars, restVars, sysVars>>

\* a canceled wait that drops the file and goes on to receive the next one
MultiSelectCanceledSkipsFile ==
    /\ rpc = "ScanMultiple" /\ pc = "select"
    /\ ctxDone
    /\ pc' = "recv"
    /\ ResetForNextFile
    /\ outcome' = "canceled"
    /\ UNCHANGED <<rpc, recvd, eof, ctxDone, scanned, pending, sentCount, lastSent, result,
                   scanVars, unaryVars, restVars, sysVars>>

\* scanData: case <-ctx.Done()
MultiSelectCanceled ==
    /\ rpc = "ScanMultiple" /\ pc = "select"
    /\ ctxDone
    /\ pc' = "send"
    /\ pending' = ErrorResponse("request canceled by client", filename)
    /\ outcome' = "canceled"
    /\ UNCHANGED <<rpc, buffer, filename, totalSize, recvd, eof, ctxDone,
                   scanned, sentCount, lastSent, result, scanVars, unaryVars, restVars, sysVars>>

\* responses held back instead of sent when the file completes
MultiSendDeferred ==
    /\ rpc = "ScanMultiple" /\ pc = "send"
    /\ pending' = NoResponse
    /\ ResetForNextFile
    /\ pc' = "recv"
    /\ UNCHANGED <<outcome, rpc, recvd, eof, ctxDone, scanned, sentCount, lastSent,
                   result, scanVars, unaryVars, restVars, sysVars>>

\* stream.Send(response) and, when it succeeds, the reset for the next file
MultiSend ==
    /\ rpc = "ScanMultiple" /\ pc = "send"
    /\ pending' = NoResponse
    /\ IF ctxDone
         THEN /\ result' = Status("SendError", "transport")
              /\ pc' = "done"
              /\ UNCHANGED <<buffer, filename, totalSize, sentCount, lastSent>>
         ELSE /\ sentCount' = sentCount + 1
              /\ lastSent' = pending
              /\ ResetForNextFile
              /\ pc' = "recv"
              /\ UNCHANGED result
    /\ UNCHANGED <<outcome, rpc, recvd, eof, ctxDone, scanned, scanVars, unaryVars, restVars, sysVars>>

\* ------------------------------------------------------ GRPCServer.ScanFile
InitUnary ==
    /\ dataSize = -1
    /\ reqFilename = NoName
    /\ unaryResp = NoResponse
    /\ ping = "none"

\* sizes of req.Data a client sends: empty, within the ceiling, one byte above
DataSizes == 0..(MaxContentLength + 1)

\* the bytes of req.Data
Data(n) == [k \in 1..n |-> <<0, k>>]

\* the empty payload answered like an oversized one
RejectEmptyAsTooLarge == Status("InvalidArgument", "file too large")

\* status.Error(codes.InvalidArgument, "file data is required")
RejectEmpty == Status("InvalidArgument", "file data is required")

\* status.Errorf(codes.InvalidArgument, "file too large, maximum size is %d bytes", ...)
RejectTooLarge == Status("InvalidArgument", "file too large")

\* ScanFile that issues the scan call before it tests the size
UnaryCallScanFirst(n, named) ==
    /\ pc = "idle" /\ hOp = "none"
    /\ rpc' = "ScanFile"
    /\ dataSize' = n
    /\ reqFilename' = IF named THEN <<0>> ELSE NoName
    /\ IF n = 0
         THEN pc' = "done" /\ result' = RejectEmpty /\ UNCHANGED scanned
         ELSE IF n > MaxContentLength
                THEN /\ pc' = "done" /\ result' = RejectTooLarge
                     /\ scanned' = Append(scanned, Data(n))
                ELSE pc' = "scan" /\ UNCHANGED <<result, scanned>>
    /\ UNCHANGED <<outcome, buffer, filename, totalSize, recvd, eof, ctxDone,
                   pending, sentCount, lastSent, unaryResp, ping, scanVars, restVars, sysVars>>

\* ScanFile is entered: the request is validated (lines 51-64)
UnaryCall(n, named) ==
    /\ pc = "idle" /\ hOp = "none"
    /\ rpc' = "ScanFile"
    /\ dataSize' = n
    /\ reqFilename' = IF named THEN <<0>> ELSE NoName
    /\ IF n = 0
         THEN pc' = "done" /\ result' = RejectEmpty
         ELSE IF n > MaxContentLength
                THEN pc' = "done" /\ result' = RejectTooLarge
                ELSE pc' = "scan" /\ UNCHANGED result
    /\ UNCHANGED <<outcome, buffer, filename, totalSize, recvd, eof, ctxDone, scanned,
                   pending, sentCount, lastSent, unaryResp, ping, scanVars, restVars, sysVars>>

\* response, scanErr := clam.ScanStream(reader, done)
UnaryScanCall(up) ==
    /\ rpc = "ScanFile" /\ pc = "scan"
    /\ scanned' = Append(scanned, Data(dataSize))
    /\ IF up
         THEN pc' = "select" /\ UNCHANGED result
         ELSE pc' = "done" /\ result' = Status("Internal", "scan failed")
    /\ outcome' = IF up THEN outcome ELSE "unavailable"
    /\ UNCHANGED <<rpc, buffer, filename, totalSize, recvd, eof, ctxDone,
                   pending, sentCount, lastSent, scanVars, unaryVars, restVars, sysVars>>

\* case result := <-response
UnarySelectResult(st) ==
    /\ rpc = "ScanFile" /\ pc = "select"
    /\ pc' = "done"
    /\ IF st = "ERROR"
         THEN result' = Status("Internal", "scan error") /\ UNCHANGED unaryResp
         ELSE result' = Status("OK", "") /\ unaryResp' = ScanResponse(st, reqFilename)
    /\ outcome' = st
    /\ UNCHANGED <<rpc, buffer, filename, totalSize, recvd, eof, ctxDone, scanned,
                   pending, sentCount, lastSent, dataSize, reqFilename, ping, scanVars, restVars, sysVars>>

\* a timeout reported with the code of a daemon failure
UnarySelectTimeoutInternal ==
    /\ rpc = "ScanFile" /\ pc = "select"
    /\ pc' = "done"
    /\ result' = Status("Internal", "scan operation timed out")
    /\ outcome' = "timeout"
    /\ UNCHANGED <<rpc, buffer, filename, totalSize, recvd, eof, ctxDone, scanned,
                   pending, sentCount, lastSent, scanVars, unaryVars, restVars, sysVars>>

\* case <-time.After(config.ScanTimeout)
UnarySelectTimeout ==
    /\ rpc = "ScanFile" /\ pc = "select"
    /\ pc' = "done"
    /\ result' = Status("DeadlineExceeded", "scan operation timed out")
    /\ outcome' = "timeout"
    /\ UNCHANGED <<rpc, buffer, filename, totalSize, recvd, eof, ctxDone, scanned,
                   pending, sentCount, lastSent, scanVars, unaryVars, restVars, sysVars>>

\* case <-ctx.Done()
UnarySelectCanceled ==
    /\ rpc = "ScanFile" /\ pc = "select"
    /\ ctxDone
    /\ pc' = "done"
    /\ result' = Status("Canceled", "request canceled by client")
    /\ outcome' = "canceled"
    /\ UNCHANGED <<rpc, buffer, filename, totalSize, recvd, eof, ctxDone, scanned,
                   pending, sentCount, lastSent, scanVars, unaryVars, restVars, sysVars>>

\* --------------------------------------------------- GRPCServer.HealthCheck
\* pb.HealthCheckResponse
HealthCheckResponse(st, msg) == [status |-> st, message |-> msg]

\* HealthCheck: one ping, the answer is always a response with a nil error
GrpcHealthCheck(up) ==
    /\ pc = "idle" /\ hOp = "none"
    /\ rpc' = "HealthCheck"
    /\ pc' = "done"
    /\ unaryResp' = IF up
                      THEN HealthCheckResponse("healthy", <<"ok">>)
                      ELSE HealthCheckResponse("unhealthy", <<"ClamAV service", "unavailable", "cause">>)
    /\ result' = Status("OK", "")
    /\ ping' = IF up THEN "ok" ELSE "error"
    /\ UNCHANGED <<outcome, buffer, filename, totalSize, recvd, eof, ctxDone, scanned,
                   pending, sentCount, lastSent, dataSize, reqFilename, scanVars, restVars, sysVars>>

\* ------------------------------------------------------------ REST handlers
Methods == {"rest_scan", "rest_stream_scan"}
Categories == {"ok", "found", "timeout", "engine_error", "canceled", "error"}

\* gin.H{...} written by c.JSON(code, ...); status is "" when the body has no
\* "status" field; a message is the sequence of its parts
Json(code, st, msg) == [code |-> code, status |-> st, message |-> msg]
NoJson == Json(0, "", <<>>)

Contains(msg, part) == \E i \in DOMAIN msg : msg[i] = part

InitRest ==
    /\ hOp = "none"
    /\ hPc = "idle"
    /\ hFormOk = TRUE
    /\ hSize = 0
    /\ hBody = 0
    /\ hReader = -1
    /\ scansInProgress = 0
    /\ scanRequestsTotal = [l \in Methods \X Categories |-> 0]
    /\ healthCheckStatus = -1
    /\ hResp = NoJson

\* result.Description / e.Description: the daemon's own text
Description == <<"description">>

\* err.Error() of an error performScan returns
ErrorText(ret) ==
    CASE ret.kind = "timeout" -> <<"scan operation", "timed out", "after", ToString(ret.timeout), "seconds">>
      [] ret.kind = "engine" -> Description
      [] ret.kind = "canceled" -> <<"context", "canceled">>
      [] ret.kind = "unavailable" -> <<"clamd unavailable", "dial error", "socket path">>
      [] OTHER -> <<>>

\* respondScanError: the switch on the error's type (lines 130-158)
respondScanError(ret) ==
    CASE ret.kind = "timeout" -> Json(504, "Scan timeout", ErrorText(ret))
      [] ret.kind = "engine" -> Json(502, "Clamd service down", Description)
      [] OTHER -> Json(502, "Clamd service down", ErrorText(ret))

\* recordScanMetrics: the status label (lines 90-102)
ScanStatusLabel(ret) ==
    IF ret.kind # "result"
      THEN CASE ret.kind = "timeout" -> "timeout"
             [] ret.kind = "engine" -> "engine_error"
             [] OTHER -> "error"
      ELSE IF ret.status = "FOUND" THEN "found" ELSE "ok"

\* scanRequestsTotal.WithLabelValues(method, status).Inc()
recordScanMetrics(method, ret) ==
    scanRequestsTotal' =
        [scanRequestsTotal EXCEPT ![<<method, ScanStatusLabel(ret)>>] = @ + 1]

\* "File too large. Maximum size is %d bytes"
TooLargeMessage == <<"File", "too large", "Maximum size is", ToString(MaxContentLength), "bytes">>

\* sizes a request declares or carries
DeclaredSizes == (-1)..(MaxContentLength + 1)
BodySizes == 0..(MaxContentLength + 2)

\* a reader that passes the whole body on
UnlimitedReader(bodyLen, n) == bodyLen

\* &io.LimitedReader{R: body, N: n}: the number of bytes it yields
LimitedReader(bodyLen, n) == IF bodyLen < n THEN bodyLen ELSE n

\* ------------------------------------------------------------ performScan
\* Description and ScanTime of a return that carries none
NoInfo == [description |-> "", elapsed |-> 0]

\* the description clamd sends with a status
DaemonDescription(st) ==
    IF st = "FOUND" THEN "Eicar-Signature"
    ELSE IF st = "ERROR" THEN "size limit exceeded"
    ELSE ""

\* no call is running: there is no done channel
NoDone == [open |-> FALSE, closes |-> 0]

\* done := make(chan bool)
make == [open |-> TRUE, closes |-> 0]

\* a function that returns without closing the channel it made
closeNever(d) == d

\* defer close(done): runs when the function returns, whichever return it is
close(d) == [open |-> FALSE, closes |-> d.closes + 1]

InitScan ==
    /\ psPc = "idle"
    /\ psTimeout = 0
    /\ psPreCanceled = FALSE
    /\ psCtxDone = FALSE
    /\ psSlow = FALSE
    /\ psStarted = FALSE
    /\ psTimerFired = FALSE
    /\ psResp = "none"
    /\ psStatus = ""
    /\ psTakenBy = "none"
    /\ psDrain = "none"
    /\ psRet = [kind |-> "none", status |-> "", timeout |-> 0]
    /\ psSite = "performScan"
    /\ psDesc = ""
    /\ psNow = 0
    /\ psStartTime = 0
    /\ psRetInfo = NoInfo
    /\ psCalls = 0
    /\ psCallerRecv = 0
    /\ psDone = NoDone

\* the timeouts a caller passes (config.ScanTimeout, or a test's own value)
Timeouts == {1, 30}

\* (*ScanResult, error) as performScan returns it; result is nil unless kind = "result"
Ret(kind, st, tmo) == [kind |-> kind, status |-> st, timeout |-> tmo]

\* the error built from a fixed timeout instead of the argument
ScanTimeoutErrorFixed(timeout) == Ret("timeout", "", 300)

\* &ScanTimeoutError{Timeout: timeout}
ScanTimeoutError(timeout) == Ret("timeout", "", timeout)

\* a return that passes every status on as a result
ResultOfAnyStatus(st) == Ret("result", st, 0)

\* the return for a value received from the response channel
ResultOf(st) == IF st = "ERROR" THEN Ret("engine", st, 0) ELSE Ret("result", st, 0)

\* a caller invokes performScan(ctx, reader, timeout)
PsCall(pre, t, slow) ==
    /\ psPc = "idle"
    /\ psPc' = "call"
    /\ psPreCanceled' = pre
    /\ psCtxDone' = pre
    /\ psTimeout' = t
    /\ psSlow' = slow
    /\ psSite' = "performScan"
    /\ psStartTime' = psNow
    /\ psDesc' = ""
    /\ psRetInfo' = NoInfo
    /\ psCalls' = 0
    /\ psCallerRecv' = 0
    /\ psDone' = make
    /\ UNCHANGED <<psStarted, psTimerFired, psResp, psStatus, psTakenBy, psDrain,
                   psRet, ingestVars, unaryVars, restVars, sysVars>>
    /\ UNCHANGED <<psNow>>

\* the caller cancels ctx while performScan runs
PsCtxCancel ==
    /\ psPc \in {"call", "select"}
    /\ ~psCtxDone
    /\ psCtxDone' = TRUE
    /\ UNCHANGED <<psPc, psTimeout, psPreCanceled, psSlow, psStarted, psTimerFired,
                   psResp, psStatus, psTakenBy, psDrain, psRet, ingestVars, unaryVars, restVars, sysVars>>
    /\ UNCHANGED <<psSite, psDesc, psNow, psStartTime, psRetInfo, psCalls, psCallerRecv, psDone>>

\* a scan call that is made again when it could not be started
PsScanStreamRetries(up) ==
    /\ psPc = "call"
    /\ psCalls' = psCalls + 1
    /\ IF up
         THEN /\ psStarted' = TRUE
              /\ psResp' = "pending"
              /\ psPc' = "select"
              /\ UNCHANGED <<psRet, psDone>>
         ELSE /\ psRet' = Ret("unavailable", "", 0)
              /\ psPc' = IF psCalls = 0 THEN "call" ELSE "done"
              /\ psDone' = IF psCalls = 0 THEN psDone ELSE close(psDone)
              /\ UNCHANGED <<psStarted, psResp>>
    /\ UNCHANGED <<psTimeout, psPreCanceled, psCtxDone, psSlow, psTimerFired,
                   psStatus, psTakenBy, psDrain, ingestVars, unaryVars, restVars, sysVars>>
    /\ UNCHANGED <<psSite, psDesc, psNow, psStartTime, psRetInfo, psCallerRecv>>

\* response, err := clam.ScanStream(reader, done)
PsScanStream(up) ==
    /\ psPc = "call"
    /\ psCalls' = psCalls + 1
    /\ IF up
         THEN /\ psStarted' = TRUE
              /\ psResp' = "pending"
              /\ psPc' = "select"
              /\ UNCHANGED <<psRet, psDone>>
         ELSE /\ psRet' = Ret("unavailable", "", 0)
              /\ psPc' = "done"
              /\ psDone' = close(psDone)
              /\ UNCHANGED <<psStarted, psResp>>
    /\ UNCHANGED <<psTimeout, psPreCanceled, psCtxDone, psSlow, psTimerFired,
                   psStatus, psTakenBy, psDrain, ingestVars, unaryVars, restVars, sysVars>>
    /\ UNCHANGED <<psSite, psDesc, psNow, psStartTime, psRetInfo, psCallerRecv>>

\* the daemon answers: the client's reader goroutine blocks sending on the channel
PsDaemonComplete(st) ==
    /\ psResp = "pending"
    /\ psSlow => psPc = "done"
    /\ psResp' = "ready"
    /\ psStatus' = st
    /\ psDesc' = DaemonDescription(st)
    /\ UNCHANGED <<psPc, psTimeout, psPreCanceled, psCtxDone, psSlow, psStarted,
                   psTimerFired, psTakenBy, psDrain, psRet, ingestVars, unaryVars, restVars, sysVars>>
    /\ UNCHANGED <<psSite, psNow, psStartTime, psRetInfo, psCalls, psCallerRecv, psDone>>

\* after performScan returned, close(done) closes the connection: the reader
\* goroutine's read fails and it closes the channel without a result
PsDaemonAbort ==
    /\ psResp = "pending"
    /\ psPc = "done"
    /\ psResp' = "closed"
    /\ UNCHANGED <<psPc, psTimeout, psPreCanceled, psCtxDone, psSlow, psStarted,
                   psTimerFired, psStatus, psTakenBy, psDrain, psRet, ingestVars, unaryVars, restVars, sysVars>>
    /\ UNCHANGED <<psSite, psDesc, psNow, psStartTime, psRetInfo, psCalls, psCallerRecv, psDone>>

\* the reader goroutine, its result received, reads on to the end and closes the channel
PsSenderClose ==
    /\ psResp = "taken"
    /\ psResp' = "closed"
    /\ UNCHANGED <<psPc, psTimeout, psPreCanceled, psCtxDone, psSlow, psStarted,
                   psTimerFired, psStatus, psTakenBy, psDrain, psRet, ingestVars, unaryVars, restVars, sysVars>>
    /\ UNCHANGED <<psSite, psDesc, psNow, psStartTime, psRetInfo, psCalls, psCallerRecv, psDone>>

\* the timer of time.After(timeout) delivers
PsTimerFire ==
    /\ psPc = "select"
    /\ ~psTimerFired
    /\ psTimerFired' = TRUE
    /\ UNCHANGED <<psPc, psTimeout, psPreCanceled, psCtxDone, psSlow, psStarted,
                   psResp, psStatus, psTakenBy, psDrain, psRet, ingestVars, unaryVars, restVars, sysVars>>
    /\ UNCHANGED <<psSite, psDesc, psNow, psStartTime, psRetInfo, psCalls, psCallerRecv, psDone>>

\* case result := <-response
PsSelectResult ==
    /\ psPc = "select"
    /\ psResp = "ready"
    /\ psResp' = "taken"
    /\ psTakenBy' = "caller"
    /\ psRet' = ResultOf(psStatus)
    /\ psRetInfo' = [description |-> psDesc, elapsed |-> psNow - psStartTime]
    /\ psCallerRecv' = psCallerRecv + 1
    /\ psPc' = "done"
    /\ psDone' = close(psDone)
    /\ UNCHANGED <<psTimeout, psPreCanceled, psCtxDone, psSlow, psStarted,
                   psTimerFired, psStatus, psDrain, ingestVars, unaryVars, restVars, sysVars>>
    /\ UNCHANGED <<psSite, psDesc, psNow, psStartTime, psCalls>>

\* a timeout case that starts the drain and goes on waiting
PsSelectTimeoutKeepsWaiting ==
    /\ psPc = "select"
    /\ psSite = "performScan"
    /\ psTimerFired
    /\ psDrain = "none"
    /\ psDrain' = "running"
    /\ UNCHANGED <<psPc, psRet, psTimeout, psPreCanceled, psCtxDone, psSlow, psStarted,
                   psTimerFired, psResp, psStatus, psTakenBy, scanAux,
                   ingestVars, unaryVars, restVars, sysVars>>

\* case <-time.After(timeout): start the drain goroutine, return the timeout error
PsSelectTimeout ==
    /\ psPc = "select"
    /\ psSite = "performScan"
    /\ psTimerFired
    /\ psDrain' = "running"
    /\ psRet' = ScanTimeoutError(psTimeout)
    /\ psPc' = "done"
    /\ psDone' = close(psDone)
    /\ UNCHANGED <<psTimeout, psPreCanceled, psCtxDone, psSlow, psStarted,
                   psTimerFired, psResp, psStatus, psTakenBy, ingestVars, unaryVars, restVars, sysVars>>
    /\ UNCHANGED <<psSite, psDesc, psNow, psStartTime, psRetInfo, psCalls, psCallerRecv>>

\* case <-ctx.Done(): start the drain goroutine, return ctx.Err()
PsSelectCanceled ==
    /\ psPc = "select"
    /\ psSite = "performScan"
    /\ psCtxDone
    /\ psDrain' = "running"
    /\ psRet' = Ret("canceled", "", 0)
    /\ psPc' = "done"
    /\ psDone' = close(psDone)
    /\ UNCHANGED <<psTimeout, psPreCanceled, psCtxDone, psSlow, psStarted,
                   psTimerFired, psResp, psStatus, psTakenBy, ingestVars, unaryVars, restVars, sysVars>>
    /\ UNCHANGED <<psSite, psDesc, psNow, psStartTime, psRetInfo, psCalls, psCallerRecv>>

\* time passes
PsTick ==
    /\ psPc \in {"idle", "call", "select"}
    /\ psNow < MaxTicks
    /\ psNow' = psNow + 1
    /\ UNCHANGED <<psPc, psTimeout, psPreCanceled, psCtxDone, psSlow, psStarted, psTimerFired,
                   psResp, psStatus, psTakenBy, psDrain, psRet, psSite, psDesc, psStartTime,
                   psRetInfo, psCalls, psCallerRecv, psDone, ingestVars, unaryVars, restVars, sysVars>>

\* go func() { for range response {} }(): one value received
PsDrainRecv ==
    /\ psDrain = "running"
    /\ psResp = "ready"
    /\ psResp' = "taken"
    /\ psTakenBy' = "drain"
    /\ UNCHANGED <<psPc, psTimeout, psPreCanceled, psCtxDone, psSlow, psStarted,
                   psTimerFired, psStatus, psDrain, psRet, ingestVars, unaryVars, restVars, sysVars>>
    /\ UNCHANGED <<psSite, psDesc, psNow, psStartTime, psRetInfo, psCalls, psCallerRecv, psDone>>

\* go func() { for range response {} }(): the channel is closed, the loop ends
PsDrainExit ==
    /\ psDrain = "running"
    /\ psResp = "closed"
    /\ psDrain' = "finished"
    /\ UNCHANGED <<psPc, psTimeout, psPreCanceled, psCtxDone, psSlow, psStarted,
                   psTimerFired, psResp, psStatus, psTakenBy, psRet, ingestVars, unaryVars, restVars, sysVars>>
    /\ UNCHANGED <<psSite, psDesc, psNow, psStartTime, psRetInfo, psCalls, psCallerRecv, psDone>>

\* ------------------------------------------- the scan waits of grpc_server.go
\* the functions of grpc_server.go that wait for a scan themselves
GrpcSites == {"ScanFile", "ScanStream", "scanData"}

\* ScanFile, ScanStream or scanData reaches its call of clam.ScanStream
GrpcWaitCall(site, pre, slow) ==
    /\ psPc = "idle"
    /\ psPc' = "call"
    /\ psPreCanceled' = pre
    /\ psCtxDone' = pre
    /\ psTimeout' = config.ScanTimeout
    /\ psSlow' = slow
    /\ psSite' = site
    /\ psStartTime' = psNow
    /\ psDesc' = ""
    /\ psRetInfo' = NoInfo
    /\ psCalls' = 0
    /\ psCallerRecv' = 0
    /\ psDone' = make
    /\ UNCHANGED <<psStarted, psTimerFired, psResp, psStatus, psTakenBy, psDrain,
                   psRet, psNow, ingestVars, unaryVars, restVars, sysVars>>

\* case <-time.After(config.ScanTimeout): the function returns
GrpcWaitTimeout ==
    /\ psPc = "select"
    /\ psSite \in GrpcSites
    /\ psTimerFired
    /\ psRet' = ScanTimeoutError(psTimeout)
    /\ psPc' = "done"
    /\ psDone' = close(psDone)
    /\ UNCHANGED <<psTimeout, psPreCanceled, psCtxDone, psSlow, psStarted, psTimerFired,
                   psResp, psStatus, psTakenBy, psDrain, psSite, psDesc, psNow,
                   psStartTime, psRetInfo, psCalls, psCallerRecv,
                   ingestVars, unaryVars, restVars, sysVars>>

\* case <-ctx.Done(): the function returns
GrpcWaitCanceled ==
    /\ psPc = "select"
    /\ psSite \in GrpcSites
    /\ psCtxDone
    /\ psRet' = Ret("canceled", "", 0)
    /\ psPc' = "done"
    /\ psDone' = close(psDone)
    /\ UNCHANGED <<psTimeout, psPreCanceled, psCtxDone, psSlow, psStarted, psTimerFired,
                   psResp, psStatus, psTakenBy, psDrain, psSite, psDesc, psNow,
                   psStartTime, psRetInfo, psCalls, psCallerRecv,
                   ingestVars, unaryVars, restVars, sysVars>>

\* ------------------------------------------------- REST handler actions
\* handleScan up to the call of performScan (lines 11-45)
HandleScan(formOk, size) ==
    /\ hOp = "none" /\ pc = "idle"
    /\ hOp' = "scan"
    /\ hFormOk' = formOk
    /\ hSize' = IF formOk THEN size ELSE 0
    /\ hBody' = IF formOk THEN size ELSE 0
    /\ IF ~formOk
         THEN /\ hResp' = Json(400, "", <<"Provide a single file">>)
              /\ hPc' = "done"
              /\ UNCHANGED <<hReader, scansInProgress>>
         ELSE IF size > MaxContentLength
                THEN /\ hResp' = Json(413, "", TooLargeMessage)
                     /\ hPc' = "done"
                     /\ UNCHANGED <<hReader, scansInProgress>>
                ELSE /\ scansInProgress' = scansInProgress + 1
                     /\ hReader' = size
                     /\ hPc' = "scanning"
                     /\ UNCHANGED hResp
    /\ UNCHANGED <<scanRequestsTotal, healthCheckStatus, ingestVars, unaryVars, scanVars, sysVars>>

\* handleStreamScan that takes the in-flight slot before it validates
HandleStreamScanCountsFirst(cl, bodyLen) ==
    /\ hOp = "none" /\ pc = "idle"
    /\ hOp' = "stream_scan"
    /\ hSize' = cl
    /\ hBody' = bodyLen
    /\ scansInProgress' = scansInProgress + 1
    /\ IF cl <= 0
         THEN /\ hResp' = Json(400, "", <<"Content-Length", "header is required and must be greater than 0">>)
              /\ hPc' = "done"
              /\ UNCHANGED hReader
         ELSE IF cl > MaxContentLength
                THEN /\ hResp' = Json(400, "", TooLargeMessage)
                     /\ hPc' = "done"
                     /\ UNCHANGED hReader
                ELSE /\ hReader' = LimitedReader(bodyLen, MaxContentLength)
                     /\ hPc' = "scanning"
                     /\ UNCHANGED hResp
    /\ UNCHANGED <<hFormOk, scanRequestsTotal, healthCheckStatus, ingestVars, unaryVars, scanVars, sysVars>>

\* handleStreamScan up to the call of performScan (lines 69-106)
HandleStreamScan(cl, bodyLen) ==
    /\ hOp = "none" /\ pc = "idle"
    /\ hOp' = "stream_scan"
    /\ hSize' = cl
    /\ hBody' = bodyLen
    /\ IF cl <= 0
         THEN /\ hResp' = Json(400, "", <<"Content-Length", "header is required and must be greater than 0">>)
              /\ hPc' = "done"
              /\ UNCHANGED <<hReader, scansInProgress>>
         ELSE IF cl > MaxContentLength
                THEN /\ hResp' = Json(400, "", TooLargeMessage)
                     /\ hPc' = "done"
                     /\ UNCHANGED <<hReader, scansInProgress>>
                ELSE /\ scansInProgress' = scansInProgress + 1
                     /\ hReader' = LimitedReader(bodyLen, MaxContentLength)
                     /\ hPc' = "scanning"
                     /\ UNCHANGED hResp
    /\ UNCHANGED <<hFormOk, scanRequestsTotal, healthCheckStatus, ingestVars, unaryVars, scanVars, sysVars>>

\* performScan(c.Request.Context(), reader, config.ScanTimeout) is entered
HandlerPerformScan(pre, t, slow) ==
    /\ hPc = "scanning"
    /\ PsCall(pre, t, slow)

\* performScan has returned: scansInProgress.Dec(), recordScanMetrics, and the
\* response (lines 47-66 and 108-127)
HandlerScanReturn ==
    /\ hPc = "scanning" /\ psPc = "done"
    /\ scansInProgress' = scansInProgress - 1
    /\ recordScanMetrics(IF hOp = "scan" THEN "rest_scan" ELSE "rest_stream_scan", psRet)
    /\ hResp' = IF psRet.kind # "result"
                  THEN respondScanError(psRet)
                  ELSE Json(200, psRet.status, Description)
    /\ hPc' = "done"
    /\ UNCHANGED <<hOp, hFormOk, hSize, hBody, hReader, healthCheckStatus,
                   ingestVars, unaryVars, scanVars, sysVars>>

\* a health probe that answers 200 whatever the ping returns
HandleHealthCheckAlwaysOk(up) ==
    /\ hOp = "none" /\ pc = "idle"
    /\ hOp' = "health"
    /\ hPc' = "done"
    /\ healthCheckStatus' = 1
    /\ hResp' = Json(200, "", <<"ok">>)
    /\ ping' = IF up THEN "ok" ELSE "error"
    /\ UNCHANGED <<hFormOk, hSize, hBody, hReader, scansInProgress, scanRequestsTotal,
                   ingestVars, dataSize, reqFilename, unaryResp, scanVars, sysVars>>

\* handleHealthCheck: one ping (lines 160-178)
HandleHealthCheck(up) ==
    /\ hOp = "none" /\ pc = "idle"
    /\ hOp' = "health"
    /\ hPc' = "done"
    /\ IF up
         THEN /\ healthCheckStatus' = 1
              /\ hResp' = Json(200, "", <<"ok">>)
         ELSE /\ healthCheckStatus' = 0
              /\ hResp' = Json(502, "", <<"Clamd service", "unavailable">>)
    /\ ping' = IF up THEN "ok" ELSE "error"
    /\ UNCHANGED <<hFormOk, hSize, hBody, hReader, scansInProgress, scanRequestsTotal,
                   ingestVars, dataSize, reqFilename, unaryResp, scanVars, sysVars>>

\* ------------------------------------------------------ process supervisor
Transports == {"rest", "grpc"}

\* errChan := make(chan error, 2)
ErrChanCap == 2

\* how a request can end, as far as the serving process is concerned
RequestOutcomes == {"ok", "timeout", "engine_error", "canceled", "unavailable", "too_large"}

InitSupervisor ==
    /\ mainPc = "parseConfig"
    /\ proc = "running"
    /\ httpSrv = "none"
    /\ grpcSrv = "none"
    /\ errChan = <<>>
    /\ sigChan = FALSE
    /\ deadline = "none"
    /\ inflight = [t \in Transports |-> 0]
    /\ served = [t \in Transports |-> 0]
    /\ cut = [t \in Transports |-> 0]
    /\ reqFailures = 0

\* the transport takes new requests
Accepting(t) ==
    /\ proc = "running"
    /\ IF t = "rest" THEN httpSrv = "serving" ELSE grpcSrv = "serving"

\* the process ends: whatever is still in flight is cut
ProcessExit(code) ==
    /\ proc' = code
    /\ cut' = [t \in Transports |-> cut[t] + inflight[t]]
    /\ inflight' = [t \in Transports |-> 0]

\* ------------------------------------------------------------ configuration
Digits == <<"0", "1", "2", "3", "4", "5", "6", "7", "8", "9">>
IsDigit(ch) == \E d \in 1..10 : Digits[d] = ch
DigitValue(ch) == (CHOOSE d \in 1..10 : Digits[d] = ch) - 1

RECURSIVE ParseDigits(_, _)
ParseDigits(str, acc) ==
    IF str = <<>> THEN acc ELSE ParseDigits(Tail(str), acc * 10 + DigitValue(Head(str)))

\* strconv.Atoi on a short string: an optional sign, then decimal digits only
Atoi(str) ==
    LET signed == str # <<>> /\ Head(str) \in {"+", "-"}
        body == IF signed THEN Tail(str) ELSE str
    IN  IF body = <<>> \/ \E i \in 1..Len(body) : ~IsDigit(body[i])
          THEN [err |-> TRUE, n |-> 0]
          ELSE [err |-> FALSE,
                n |-> IF signed /\ Head(str) = "-" THEN 0 - ParseDigits(body, 0)
                                                   ELSE ParseDigits(body, 0)]

\* two's complement wrap-around of an IntBits-wide integer
Wrap(n) ==
    LET m == 2 ^ IntBits
        r == n % m
    IN  IF r >= m \div 2 THEN r - m ELSE r

\* the int64 values
Int64 == (0 - 2 ^ (IntBits - 1)) .. (2 ^ (IntBits - 1) - 1)

\* time.Duration(timeoutSeconds) * time.Second
Duration(timeoutSeconds) == Wrap(timeoutSeconds * Second)

\* the values the flags and environment can give
PortStrings == { <<>>, <<"a", "b", "c">>, <<"0">>, <<"1">>, <<"-", "1">>,
                 <<"6", "5", "5", "3", "5">>, <<"6", "5", "5", "3", "6">> }
SocketPaths == {"", "/run/clamav/clamd.ctl", "/tmp/other.ctl"}
Settings ==
    [timeoutSeconds : Int64, maxSize : {-1, 0, MaxContentLength},
     socket : {"", "/run/clamav/clamd.ctl"}, port : PortStrings, grpcPort : PortStrings,
     enableGRPC : BOOLEAN]

\* var config = Config{...}
InitConfig ==
    /\ config = [ClamdUnixSocket |-> "/run/clamav/clamd.ctl",
                 MaxContentLength |-> MaxContentLength,
                 Port |-> <<"6", "0", "0", "0">>,
                 GRPCPort |-> <<"9", "0", "0", "0">>,
                 ScanTimeout |-> Duration(1),
                 EnableGRPC |-> TRUE]
    /\ stderr = <<>>
    /\ env = [timeoutSeconds |-> 1, maxSize |-> MaxContentLength,
              socket |-> "/run/clamav/clamd.ctl", port |-> <<"6", "0", "0", "0">>,
              grpcPort |-> <<"9", "0", "0", "0">>, enableGRPC |-> TRUE]

\* the port check of parseConfig
ValidPort(str) ==
    LET a == Atoi(str) IN ~a.err /\ a.n >= 1 /\ a.n <= 65535

\* the checks of parseConfig, in their order: the FATAL line, or <<>>
Validate(c) ==
    IF c.ScanTimeout <= 0 THEN <<"FATAL", "scan timeout must be > 0">>
    ELSE IF c.MaxContentLength <= 0 THEN <<"FATAL", "max content length must be > 0">>
    ELSE IF c.ClamdUnixSocket = "" THEN <<"FATAL", "ClamAV Unix socket path must not be empty">>
    ELSE IF ~ValidPort(c.Port) THEN <<"FATAL", "port must be a valid TCP port (1-65535)">>
    ELSE IF ~ValidPort(c.GRPCPort) THEN <<"FATAL", "gRPC port must be a valid TCP port (1-65535)">>
    ELSE <<>>

\* parseConfig, called first by main: the settings are stored, then checked
parseConfig(set) ==
    /\ proc = "running" /\ mainPc = "parseConfig"
    /\ config' = [ClamdUnixSocket |-> set.socket,
                  MaxContentLength |-> set.maxSize,
                  Port |-> set.port,
                  GRPCPort |-> set.grpcPort,
                  ScanTimeout |-> Duration(set.timeoutSeconds),
                  EnableGRPC |-> set.enableGRPC]
    /\ env' = set
    /\ stderr' = Validate(config')
    /\ IF stderr' # <<>>
         THEN mainPc' = "exited" /\ ProcessExit("exit1")
         ELSE mainPc' = "startGrpc" /\ UNCHANGED <<proc, cut, inflight>>
    /\ UNCHANGED <<httpSrv, grpcSrv, errChan, sigChan, deadline, served, reqFailures,
                   clientVars, sessVars, ingestVars, scanVars, unaryVars, restVars>>

\* startGRPCServer, called by main when config.EnableGRPC
StartGRPCServer(listenOk) ==
    /\ proc = "running" /\ mainPc = "startGrpc"
    /\ IF ~config.EnableGRPC
         THEN UNCHANGED <<grpcSrv, errChan>>
         ELSE IF listenOk
                THEN grpcSrv' = "serving" /\ UNCHANGED errChan
                ELSE /\ Len(errChan) < ErrChanCap
                     /\ errChan' = Append(errChan, "failed to listen")
                     /\ grpcSrv' = "nil"
    /\ mainPc' = "startRest"
    /\ UNCHANGED <<proc, httpSrv, sigChan, deadline, inflight, served, cut, reqFailures,
                   otherVars>>

\* startRESTServer: the server is built and its goroutine launched
StartRESTServer ==
    /\ proc = "running" /\ mainPc = "startRest"
    /\ httpSrv' = "starting"
    /\ mainPc' = "wait"
    /\ UNCHANGED <<proc, grpcSrv, errChan, sigChan, deadline, inflight, served, cut, reqFailures,
                   otherVars>>

\* srv.ListenAndServe() in its goroutine: the listener is bound, or the error
\* is sent to errChan
RestListenAndServe(listenOk) ==
    /\ proc = "running" /\ httpSrv = "starting"
    /\ IF listenOk
         THEN httpSrv' = "serving" /\ UNCHANGED errChan
         ELSE /\ Len(errChan) < ErrChanCap
              /\ errChan' = Append(errChan, "REST server error")
              /\ httpSrv' = "failed"
    /\ UNCHANGED <<mainPc, proc, grpcSrv, sigChan, deadline, inflight, served, cut, reqFailures,
                   otherVars>>

\* srv.ListenAndServe() returns an error other than ErrServerClosed while serving
RestServeError ==
    /\ proc = "running" /\ httpSrv = "serving"
    /\ Len(errChan) < ErrChanCap
    /\ errChan' = Append(errChan, "REST server error")
    /\ httpSrv' = "failed"
    /\ UNCHANGED <<mainPc, proc, grpcSrv, sigChan, deadline, inflight, served, cut, reqFailures,
                   otherVars>>

\* grpcServer.Serve(lis) returns an error
GrpcServeError ==
    /\ proc = "running" /\ grpcSrv = "serving"
    /\ Len(errChan) < ErrChanCap
    /\ errChan' = Append(errChan, "gRPC server error")
    /\ grpcSrv' = "failed"
    /\ UNCHANGED <<mainPc, proc, httpSrv, sigChan, deadline, inflight, served, cut, reqFailures,
                   otherVars>>

\* a transport accepts a request and starts its handler
AcceptRequest(t) ==
    /\ Accepting(t)
    /\ inflight[t] + served[t] + cut[t] < MaxRequests
    /\ inflight' = [inflight EXCEPT ![t] = @ + 1]
    /\ UNCHANGED <<mainPc, proc, httpSrv, grpcSrv, errChan, sigChan, deadline, served, cut,
                   reqFailures, otherVars>>

\* a handler that reports its failure to the supervisor
RequestEndEscalates(t, o) ==
    /\ proc = "running" /\ inflight[t] > 0
    /\ inflight' = [inflight EXCEPT ![t] = @ - 1]
    /\ served' = [served EXCEPT ![t] = @ + 1]
    /\ reqFailures' = IF o = "ok" THEN reqFailures ELSE reqFailures + 1
    /\ errChan' = IF o # "ok" /\ Len(errChan) < ErrChanCap THEN Append(errChan, o) ELSE errChan
    /\ UNCHANGED <<mainPc, proc, httpSrv, grpcSrv, sigChan, deadline, cut,
                   otherVars>>

\* a handler returns, with a response or with a request-level failure
RequestEnd(t, o) ==
    /\ proc = "running" /\ inflight[t] > 0
    /\ inflight' = [inflight EXCEPT ![t] = @ - 1]
    /\ served' = [served EXCEPT ![t] = @ + 1]
    /\ reqFailures' = IF o = "ok" THEN reqFailures ELSE reqFailures + 1
    /\ UNCHANGED <<mainPc, proc, httpSrv, grpcSrv, errChan, sigChan, deadline, cut,
                   otherVars>>

\* os.Interrupt or SIGTERM is delivered once signal.Notify has registered sigChan
Signal ==
    /\ proc = "running" /\ ~sigChan
    /\ mainPc = "wait"
    /\ sigChan' = TRUE
    /\ UNCHANGED <<mainPc, proc, httpSrv, grpcSrv, errChan, deadline, inflight, served, cut,
                   reqFailures, otherVars>>

\* case err := <-errChan: logger.Fatal, which ends the process with code 1
MainServerError ==
    /\ proc = "running" /\ mainPc = "wait"
    /\ errChan # <<>>
    /\ errChan' = Tail(errChan)
    /\ mainPc' = "exited"
    /\ ProcessExit("exit1")
    /\ UNCHANGED <<httpSrv, grpcSrv, sigChan, deadline, served, reqFailures,
                   otherVars>>

\* case sig := <-sigChan, then context.WithTimeout(..., 30*time.Second)
MainSignal ==
    /\ proc = "running" /\ mainPc = "wait"
    /\ sigChan
    /\ sigChan' = FALSE
    /\ deadline' = "set"
    /\ mainPc' = "shutdownRest"
    /\ UNCHANGED <<proc, httpSrv, grpcSrv, errChan, inflight, served, cut, reqFailures,
                   otherVars>>

\* the 30 seconds of shutdownCtx have passed
DeadlineExpire ==
    /\ proc = "running" /\ deadline = "set"
    /\ deadline' = "expired"
    /\ UNCHANGED <<mainPc, proc, httpSrv, grpcSrv, errChan, sigChan, inflight, served, cut,
                   reqFailures, otherVars>>

\* httpSrv.Shutdown(shutdownCtx): the listeners are closed first
RestShutdownBegin ==
    /\ proc = "running" /\ mainPc = "shutdownRest"
    /\ httpSrv' = IF httpSrv = "failed" THEN "closed" ELSE "draining"
    /\ mainPc' = "waitRest"
    /\ UNCHANGED <<proc, grpcSrv, errChan, sigChan, deadline, inflight, served, cut, reqFailures,
                   otherVars>>

\* a Shutdown that waits for the last request whatever the deadline
RestShutdownWaitsForRequests ==
    /\ proc = "running" /\ mainPc = "waitRest"
    /\ inflight["rest"] = 0
    /\ httpSrv' = "closed"
    /\ mainPc' = "shutdownGrpc"
    /\ UNCHANGED <<proc, grpcSrv, errChan, sigChan, deadline, inflight, served, cut, reqFailures,
                   otherVars>>

\* httpSrv.Shutdown returns: no request is left, or shutdownCtx is done
RestShutdownReturn ==
    /\ proc = "running" /\ mainPc = "waitRest"
    /\ inflight["rest"] = 0 \/ deadline = "expired"
    /\ httpSrv' = "closed"
    /\ mainPc' = "shutdownGrpc"
    /\ UNCHANGED <<proc, grpcSrv, errChan, sigChan, deadline, inflight, served, cut, reqFailures,
                   otherVars>>

\* if grpcSrv != nil: the goroutine that calls GracefulStop is launched
GrpcShutdownBegin ==
    /\ proc = "running" /\ mainPc = "shutdownGrpc"
    /\ mainPc' = IF grpcSrv \in {"none", "nil"} THEN "return" ELSE "waitGrpc"
    /\ UNCHANGED <<proc, httpSrv, grpcSrv, errChan, sigChan, deadline, inflight, served, cut,
                   reqFailures, otherVars>>

\* grpcSrv.GracefulStop() starts: no new connection or RPC is taken
GrpcGracefulStopBegin ==
    /\ proc = "running" /\ mainPc = "waitGrpc"
    /\ grpcSrv \in {"serving", "failed"}
    /\ grpcSrv' = "draining"
    /\ UNCHANGED <<mainPc, proc, httpSrv, errChan, sigChan, deadline, inflight, served, cut,
                   reqFailures, otherVars>>

\* grpcSrv.GracefulStop() returns once no RPC is left; close(stopped)
GrpcGracefulStopEnd ==
    /\ proc = "running" /\ grpcSrv = "draining"
    /\ inflight["grpc"] = 0
    /\ grpcSrv' = "stopped"
    /\ UNCHANGED <<mainPc, proc, httpSrv, errChan, sigChan, deadline, inflight, served, cut,
                   reqFailures, otherVars>>

\* case <-stopped
MainGrpcStopped ==
    /\ proc = "running" /\ mainPc = "waitGrpc"
    /\ grpcSrv = "stopped"
    /\ mainPc' = "return"
    /\ UNCHANGED <<proc, httpSrv, grpcSrv, errChan, sigChan, deadline, inflight, served, cut,
                   reqFailures, otherVars>>

\* case <-shutdownCtx.Done(): grpcSrv.Stop() closes every connection
MainGrpcForceStop ==
    /\ proc = "running" /\ mainPc = "waitGrpc"
    /\ deadline = "expired"
    /\ grpcSrv' = "stopped"
    /\ cut' = [cut EXCEPT !["grpc"] = @ + inflight["grpc"]]
    /\ inflight' = [inflight EXCEPT !["grpc"] = 0]
    /\ mainPc' = "return"
    /\ UNCHANGED <<proc, httpSrv, errChan, sigChan, deadline, served, reqFailures,
                   otherVars>>

\* main returns: the process ends with code 0
MainReturn ==
    /\ proc = "running" /\ mainPc = "return"
    /\ mainPc' = "exited"
    /\ ProcessExit("exit0")
    /\ UNCHANGED <<httpSrv, grpcSrv, errChan, sigChan, deadline, served, reqFailures,
                   otherVars>>

\* the settings the supervisor is run under: valid ones, and one that is not
SupervisorSettings ==
    { set \in Settings : /\ set.timeoutSeconds \in {0, 1}
                         /\ set.maxSize = MaxContentLength
                         /\ set.socket # ""
                         /\ set.port = <<"1">>
                         /\ set.grpcPort = <<"6", "5", "5", "3", "5">> }

NextSupervisor ==
    \/ \E set \in SupervisorSettings : parseConfig(set)
    \/ \E listenOk \in BOOLEAN : StartGRPCServer(listenOk)
    \/ StartRESTServer
    \/ \E listenOk \in BOOLEAN : RestListenAndServe(listenOk)
    \/ RestServeError
    \/ GrpcServeError
    \/ \E t \in Transports : AcceptRequest(t)
    \/ \E t \in Transports, o \in RequestOutcomes : RequestEnd(t, o)
    \/ Signal
    \/ MainServerError
    \/ MainSignal
    \/ DeadlineExpire
    \/ RestShutdownBegin
    \/ RestShutdownReturn
    \/ GrpcShutdownBegin
    \/ GrpcGracefulStopBegin
    \/ GrpcGracefulStopEnd
    \/ MainGrpcStopped
    \/ MainGrpcForceStop
    \/ MainReturn


\* ------------------------------------------------- the shared daemon handle
Goroutines == 1..NumGoroutines

\* a nil *clamd.Clamd
NoClient == [id |-> 0, socket |-> "", epoch |-> 0]

NoReturn == [called |-> FALSE, handle |-> NoClient, epoch |-> 0]

InitClient ==
    /\ clamdClient = NoClient
    /\ clamdOnce = FALSE
    /\ clamdMu = 0
    /\ gPc = [g \in Goroutines |-> "idle"]
    /\ gRet = [g \in Goroutines |-> NoReturn]
    /\ built = 0
    /\ resets = 0
    /\ handles = 0
    /\ swapped = FALSE

\* clamd.NewClamd("unix://" + config.ClamdUnixSocket): a new instance
NewClamd == [id |-> handles + 1, socket |-> config.ClamdUnixSocket, epoch |-> resets]

\* initClamdClient
initClamdClient ==
    /\ clamdClient' = NewClamd
    /\ handles' = handles + 1

\* main calls initClamdClient itself, before any server is started
MainInitClamdClient ==
    /\ handles = 0 /\ resets = 0 /\ clamdMu = 0
    /\ \A g \in Goroutines : gPc[g] = "idle" /\ ~gRet[g].called
    /\ initClamdClient
    /\ UNCHANGED <<clamdOnce, clamdMu, gPc, gRet, built, resets, swapped, otherClientVars>>

\* getClamdClient: clamdMu.Lock()
GetLock(g) ==
    /\ gPc[g] = "idle" /\ clamdMu = 0
    /\ clamdMu' = g
    /\ gPc' = [gPc EXCEPT ![g] = "getOnce"]
    /\ UNCHANGED <<clamdClient, clamdOnce, gRet, built, resets, handles, swapped, otherClientVars>>

\* a getClamdClient that constructs on every call
GetOnceAlways(g) ==
    /\ gPc[g] = "getOnce"
    /\ initClamdClient /\ clamdOnce' = TRUE /\ built' = built + 1
    /\ gPc' = [gPc EXCEPT ![g] = "getReturn"]
    /\ UNCHANGED <<clamdMu, gRet, resets, swapped, otherClientVars>>

\* getClamdClient: clamdOnce.Do(initClamdClient)
GetOnce(g) ==
    /\ gPc[g] = "getOnce"
    /\ IF ~clamdOnce
         THEN initClamdClient /\ clamdOnce' = TRUE /\ built' = built + 1
         ELSE UNCHANGED <<clamdClient, clamdOnce, built, handles>>
    /\ gPc' = [gPc EXCEPT ![g] = "getReturn"]
    /\ UNCHANGED <<clamdMu, gRet, resets, swapped, otherClientVars>>

\* getClamdClient: return clamdClient, and the deferred clamdMu.Unlock()
GetReturn(g) ==
    /\ gPc[g] = "getReturn"
    /\ gRet' = [gRet EXCEPT ![g] = [called |-> TRUE, handle |-> clamdClient, epoch |-> resets]]
    /\ clamdMu' = 0
    /\ gPc' = [gPc EXCEPT ![g] = "idle"]
    /\ UNCHANGED <<clamdClient, clamdOnce, built, resets, handles, swapped, otherClientVars>>

\* resetClamdClient: clamdMu.Lock()
ResetLock(g) ==
    /\ gPc[g] = "idle" /\ clamdMu = 0
    /\ resets < MaxResets
    /\ clamdMu' = g
    /\ gPc' = [gPc EXCEPT ![g] = "reset"]
    /\ UNCHANGED <<clamdClient, clamdOnce, gRet, built, resets, handles, swapped, otherClientVars>>

\* a resetClamdClient that leaves clamdOnce as it is
resetClamdClientKeepsOnce(g) ==
    /\ gPc[g] = "reset"
    /\ clamdClient' = NoClient
    /\ built' = 0
    /\ resets' = resets + 1
    /\ swapped' = FALSE
    /\ clamdMu' = 0
    /\ gPc' = [gPc EXCEPT ![g] = "idle"]
    /\ UNCHANGED <<clamdOnce, gRet, handles, otherClientVars>>

\* resetClamdClient: clamdClient = nil, clamdOnce = sync.Once{}, and the
\* deferred clamdMu.Unlock()
resetClamdClient(g) ==
    /\ gPc[g] = "reset"
    /\ clamdClient' = NoClient
    /\ clamdOnce' = FALSE
    /\ built' = 0
    /\ resets' = resets + 1
    /\ swapped' = FALSE
    /\ clamdMu' = 0
    /\ gPc' = [gPc EXCEPT ![g] = "idle"]
    /\ UNCHANGED <<gRet, handles, otherClientVars>>

\* config.ClamdUnixSocket = s, as the tests do between calls
SetSocket(s) ==
    /\ clamdMu = 0
    /\ s # config.ClamdUnixSocket
    /\ config' = [config EXCEPT !.ClamdUnixSocket = s]
    /\ swapped' = TRUE
    /\ UNCHANGED <<clamdClient, clamdOnce, clamdMu, gPc, gRet, built, resets, handles,
                   stderr, env, supVars, sessVars, ingestVars, scanVars, unaryVars, restVars>>

\* pingClamd: getClamdClient().Ping(); the get runs under clamdMu, the probe
\* itself opens its own connection
pingClamd(g, up) ==
    /\ gPc[g] = "idle" /\ clamdMu = 0
    /\ IF ~clamdOnce
         THEN initClamdClient /\ clamdOnce' = TRUE /\ built' = built + 1
         ELSE UNCHANGED <<clamdClient, clamdOnce, built, handles>>
    /\ ping' = IF up THEN "ok" ELSE "error"
    /\ UNCHANGED <<clamdMu, gPc, gRet, resets, swapped, dataSize, reqFilename, unaryResp,
                   cfgVars, supVars, sessVars, ingestVars, scanVars, restVars>>

\* a scan begins: clam := getClamdClient() takes clamdMu
ScanLock(g) ==
    /\ gPc[g] = "idle" /\ clamdMu = 0
    /\ clamdMu' = g
    /\ gPc' = [gPc EXCEPT ![g] = "scanGet"]
    /\ UNCHANGED <<clamdClient, clamdOnce, gRet, built, resets, handles, swapped, otherClientVars>>

\* the rest of getClamdClient, then clam.ScanStream: the scan waits for the
\* daemon with clamdMu released
ScanGet(g) ==
    /\ gPc[g] = "scanGet"
    /\ IF ~clamdOnce
         THEN initClamdClient /\ clamdOnce' = TRUE /\ built' = built + 1
         ELSE UNCHANGED <<clamdClient, clamdOnce, built, handles>>
    /\ gRet' = [gRet EXCEPT ![g] = [called |-> TRUE, handle |-> clamdClient', epoch |-> resets]]
    /\ clamdMu' = 0
    /\ gPc' = [gPc EXCEPT ![g] = "scanWait"]
    /\ UNCHANGED <<resets, swapped, otherClientVars>>

\* the scan's wait ends: a result, the timeout or a cancellation
ScanWaitEnd(g) ==
    /\ gPc[g] = "scanWait"
    /\ gPc' = [gPc EXCEPT ![g] = "idle"]
    /\ UNCHANGED <<clamdClient, clamdOnce, clamdMu, gRet, built, resets, handles, swapped,
                   otherClientVars>>

\* goroutines that scan, next to those that get, reset and ping
NextScans ==
    \/ \E g \in Goroutines : ScanLock(g)
    \/ \E g \in Goroutines : ScanGet(g)
    \/ \E g \in Goroutines : ScanWaitEnd(g)
    \/ \E g \in Goroutines : ResetLock(g)
    \/ \E g \in Goroutines : resetClamdClient(g)
    \/ \E s \in SocketPaths \ {""} : SetSocket(s)

NextClient ==
    \/ MainInitClamdClient
    \/ \E g \in Goroutines, up \in BOOLEAN : pingClamd(g, up)
    \/ \E g \in Goroutines : GetLock(g)
    \/ \E g \in Goroutines : GetOnce(g)
    \/ \E g \in Goroutines : GetReturn(g)
    \/ \E g \in Goroutines : ResetLock(g)
    \/ \E g \in Goroutines : resetClamdClient(g)
    \/ \E s \in SocketPaths \ {""} : SetSocket(s)


\* -------------------------------------------- concurrent streaming sessions
\* two sessions open at the same time, each served by its own handler goroutine
Sessions == {1, 2}

\* the messages of a session: a chunk of one byte, a chunk that fills the
\* ceiling by itself, or a chunk that is larger than the ceiling
SessionChunkSet ==
    [size : {1, MaxContentLength, MaxContentLength + 1}, named : BOOLEAN, last : BOOLEAN]

\* pb.ScanStreamRequest of session i: a filename that is set names the session,
\* so that a response's filename tells whose message it was taken from
SessionRequest(i, c) ==
    [size |-> c.size, fname |-> IF c.named THEN <<i>> ELSE NoName, last |-> c.last]

\* what the daemon's part in a file's scan can come to
ScanVerdicts == {"OK", "FOUND", "timeout"}

\* var buffer bytes.Buffer; var filename string; var totalSize int64, with the
\* messages received, the responses sent and the status returned
NoSession ==
    [kind |-> "none", pc |-> "idle", n |-> 0, totalSize |-> 0, filename |-> NoName,
     sentCount |-> 0, lastSent |-> NoResponse, code |-> "none"]

InitSessions == session = [i \in Sessions |-> NoSession]

\* the response for a file of ScanMultiple
FileResponse(v, fname) ==
    IF v = "timeout" THEN ErrorResponse("scan operation timed out", fname)
    ELSE ScanResponse(v, fname)

\* the status ScanStream returns for a scan, "OK" with its response
StreamCode(v) ==
    IF v = "timeout" THEN "DeadlineExceeded"
    ELSE "OK"

\* the scan of the accumulated bytes and what follows it: ScanStream answers
\* and returns, ScanMultiple sends a response and resets for the next file
AfterScan(a, v) ==
    IF a.kind = "ScanStream"
      THEN [a EXCEPT !.pc = "done", !.code = StreamCode(v),
                     !.sentCount = IF StreamCode(v) = "OK" THEN @ + 1 ELSE @,
                     !.lastSent = IF StreamCode(v) = "OK" THEN ScanResponse(v, a.filename) ELSE @]
      ELSE [a EXCEPT !.sentCount = @ + 1, !.lastSent = FileResponse(v, a.filename),
                     !.totalSize = 0, !.filename = NoName]

\* an oversized file answered like a failed scan: an ERROR response, then on
\* to the next file
TooLargeReported(a) ==
    [a EXCEPT !.sentCount = @ + 1, !.lastSent = ErrorResponse("file too large", a.filename),
              !.totalSize = 0, !.filename = NoName]

\* return status.Errorf(codes.InvalidArgument, "file too large, ...")
TooLarge(a) == [a EXCEPT !.pc = "done", !.code = "InvalidArgument"]

\* one iteration of the receive loop on the handler's variables a, for the
\* message req, with v the outcome of the scan if one is made
RecvStep(a, req, v) ==
    LET c == req
        b == [a EXCEPT !.n = @ + 1]
    IN  IF a.kind = "ScanStream"
          THEN LET named == [b EXCEPT !.filename = StoreFilename(a.filename, req.fname)]
               IN  IF ExceedsLimit(a.totalSize, c.size)
                     THEN TooLarge(named)
                     ELSE LET d == [named EXCEPT !.totalSize = @ + c.size]
                          IN  IF c.last THEN AfterScan(d, v) ELSE d
          ELSE IF ExceedsLimit(a.totalSize, c.size)
                 THEN TooLarge(b)
                 ELSE LET d == [b EXCEPT !.filename = StoreFilename(a.filename, req.fname),
                                         !.totalSize = @ + c.size]
                      IN  IF c.last THEN AfterScan(d, v) ELSE d

\* stream.Recv() returns io.EOF
EOFStep(a, v) ==
    IF a.kind = "ScanStream"
      THEN AfterScan(a, v)
      ELSE [a EXCEPT !.pc = "done", !.code = "OK"]

\* accumulators kept in one place for all sessions
SharedLocals(i) ==
    [session[i] EXCEPT !.totalSize = session[1].totalSize + session[2].totalSize]

\* the handler's local variables: each call of ScanStream or ScanMultiple has its own
Locals(i) == session[i]

\* the gRPC runtime starts the handler of a new session in its own goroutine
SessStart(i, kind) ==
    /\ session[i].kind = "none"
    /\ session' = [session EXCEPT ![i] = [NoSession EXCEPT !.kind = kind, !.pc = "recv"]]
    /\ UNCHANGED <<supVars, cfgVars, clientVars, ingestVars, scanVars, unaryVars, restVars>>

\* session i receives a message and handles it
SessRecv(i, c, v) ==
    /\ session[i].pc = "recv"
    /\ session[i].n < SessionChunks
    /\ c.last \/ v = "OK"
    /\ session' = [session EXCEPT ![i] = RecvStep(Locals(i), SessionRequest(i, c), v)]
    /\ UNCHANGED <<supVars, cfgVars, clientVars, ingestVars, scanVars, unaryVars, restVars>>

\* the client of session i closes its side
SessEOF(i, v) ==
    /\ session[i].pc = "recv"
    /\ session[i].kind = "ScanStream" \/ v = "OK"
    /\ session' = [session EXCEPT ![i] = EOFStep(Locals(i), v)]
    /\ UNCHANGED <<supVars, cfgVars, clientVars, ingestVars, scanVars, unaryVars, restVars>>

NextSessions ==
    \/ \E i \in Sessions, kind \in {"ScanStream", "ScanMultiple"} : SessStart(i, kind)
    \/ \E i \in Sessions, c \in SessionChunkSet, v \in ScanVerdicts : SessRecv(i, c, v)
    \/ \E i \in Sessions, v \in ScanVerdicts : SessEOF(i, v)

\* ------------------------------------------------------- specifications
Init ==
    /\ InitIngest /\ InitScan /\ InitUnary /\ InitRest
    /\ InitSupervisor /\ InitConfig /\ InitClient /\ InitSessions

NextIngest ==
    \/ \E r \in {"ScanStream", "ScanMultiple"} : StartRPC(r)
    \/ CtxCancel
    \/ \E c \in Chunks : StreamRecvChunk(c)
    \/ StreamRecvEOF
    \/ StreamRecvError
    \/ \E up \in BOOLEAN : StreamScanCall(up)
    \/ \E st \in DaemonStatuses : StreamSelectResult(st)
    \/ StreamSelectTimeout
    \/ StreamSelectCanceled
    \/ \E c \in Chunks : MultiRecvChunk(c)
    \/ MultiRecvEOF
    \/ MultiRecvError
    \/ \E up \in BOOLEAN : MultiScanCall(up)
    \/ \E st \in DaemonStatuses : MultiSelectResult(st)
    \/ MultiSelectTimeout
    \/ MultiSelectCanceled
    \/ MultiSend
    \/ \E n \in DataSizes, named \in BOOLEAN : UnaryCall(n, named)
    \/ \E up \in BOOLEAN : UnaryScanCall(up)
    \/ \E st \in DaemonStatuses : UnarySelectResult(st)
    \/ UnarySelectTimeout
    \/ UnarySelectCanceled
    \/ \E up \in BOOLEAN : GrpcHealthCheck(up)

SpecIngest == Init /\ [][NextIngest]_vars

NextScan ==
    \/ \E pre \in BOOLEAN, t \in Timeouts, slow \in BOOLEAN : PsCall(pre, t, slow)
    \/ PsCtxCancel
    \/ \E up \in BOOLEAN : PsScanStream(up)
    \/ \E st \in DaemonStatuses : PsDaemonComplete(st)
    \/ PsDaemonAbort
    \/ PsSenderClose
    \/ PsTimerFire
    \/ PsSelectResult
    \/ PsSelectTimeout
    \/ PsSelectCanceled
    \/ PsDrainRecv
    \/ PsDrainExit
    \/ PsTick

SpecScan == Init /\ [][NextScan]_vars

\* one ScanStream session
NextStream ==
    \/ \E r \in {"ScanStream"} : StartRPC(r)
    \/ CtxCancel
    \/ \E c \in Chunks : StreamRecvChunk(c)
    \/ StreamRecvEOF
    \/ StreamRecvError
    \/ \E up \in BOOLEAN : StreamScanCall(up)
    \/ \E st \in DaemonStatuses : StreamSelectResult(st)
    \/ StreamSelectTimeout
    \/ StreamSelectCanceled

SpecStream == Init /\ [][NextStream]_vars

\* one ScanMultiple session
NextMultiple ==
    \/ \E r \in {"ScanMultiple"} : StartRPC(r)
    \/ CtxCancel
    \/ \E c \in Chunks : MultiRecvChunk(c)
    \/ MultiRecvEOF
    \/ MultiRecvError
    \/ \E up \in BOOLEAN : MultiScanCall(up)
    \/ \E st \in DaemonStatuses : MultiSelectResult(st)
    \/ MultiSelectTimeout
    \/ MultiSelectCanceled
    \/ MultiSend

SpecMultiple == Init /\ [][NextMultiple]_vars

\* the handler's goroutine is scheduled, and a canceled context is seen by the
\* select of scanData, by Send and by Recv; the client and the daemon are free
\* to stay silent
SpecMultipleFair ==
    /\ SpecMultiple
    /\ WF_vars(\E up \in BOOLEAN : MultiScanCall(up))
    /\ WF_vars(MultiSelectCanceled)
    /\ WF_vars(MultiSend)
    /\ WF_vars(MultiRecvError)

\* the handler's goroutine is scheduled, the timer of time.After delivers
\* after config.ScanTimeout, and a canceled context makes Recv return; the
\* client and the daemon are free to stay silent
SpecStreamTimed ==
    /\ SpecStream
    /\ WF_vars(\E up \in BOOLEAN : StreamScanCall(up))
    /\ WF_vars(StreamSelectTimeout)
    /\ WF_vars(StreamSelectCanceled)
    /\ WF_vars(StreamRecvError)

\* one scan wait, in performScan or in one of the functions of grpc_server.go
NextWaits ==
    \/ NextScan
    \/ \E site \in GrpcSites, pre \in BOOLEAN, slow \in BOOLEAN : GrpcWaitCall(site, pre, slow)
    \/ GrpcWaitTimeout
    \/ GrpcWaitCanceled

SpecWaits == Init /\ [][NextWaits]_vars

\* the goroutines that were started are scheduled: the one that sends the
\* daemon's answer and closes the channel, and the drain
SpecWaitsFair ==
    /\ SpecWaits
    /\ WF_vars(PsSenderClose)
    /\ WF_vars(PsDrainRecv)
    /\ WF_vars(PsDrainExit)

\* one REST request: a handler of handlers.go and the performScan call it makes
NextRest ==
    \/ \E formOk \in BOOLEAN, size \in DeclaredSizes \ {-1} : HandleScan(formOk, size)
    \/ \E cl \in DeclaredSizes, bodyLen \in BodySizes : HandleStreamScan(cl, bodyLen)
    \/ \E pre \in BOOLEAN, t \in Timeouts, slow \in BOOLEAN : HandlerPerformScan(pre, t, slow)
    \/ HandlerScanReturn
    \/ \E up \in BOOLEAN : HandleHealthCheck(up)
    \/ PsCtxCancel
    \/ \E up \in BOOLEAN : PsScanStream(up)
    \/ \E st \in DaemonStatuses : PsDaemonComplete(st)
    \/ PsDaemonAbort
    \/ PsSenderClose
    \/ PsTimerFire
    \/ PsSelectResult
    \/ PsSelectTimeout
    \/ PsSelectCanceled
    \/ PsDrainRecv
    \/ PsDrainExit

SpecRest == Init /\ [][NextRest]_vars

\* one request on either transport
NextRequest == NextIngest \/ NextRest

SpecRequest == Init /\ [][NextRequest]_vars

SpecSupervisor == Init /\ [][NextSupervisor]_vars

\* main's goroutine is scheduled and the timer of shutdownCtx runs; requests
\* in flight are free never to finish
SpecSupervisorFair ==
    /\ SpecSupervisor
    /\ WF_vars(DeadlineExpire)
    /\ WF_vars(RestShutdownBegin)
    /\ WF_vars(RestShutdownReturn)
    /\ WF_vars(GrpcShutdownBegin)
    /\ WF_vars(MainGrpcStopped \/ MainGrpcForceStop)
    /\ WF_vars(MainReturn)

\* start-up: the configuration is loaded, then the listeners are started
NextConfig ==
    \/ \E set \in Settings : parseConfig(set)
    \/ \E listenOk \in BOOLEAN : StartGRPCServer(listenOk)
    \/ StartRESTServer
    \/ \E listenOk \in BOOLEAN : RestListenAndServe(listenOk)

SpecConfig == Init /\ [][NextConfig]_vars

SpecClient == Init /\ [][NextClient]_vars

SpecSessions == Init /\ [][NextSessions]_vars

SpecScans == Init /\ [][NextScans]_vars

\* =================================================================
\* Properties of the chunked operations, stated over the messages received
\* =================================================================
Max(S) == CHOOSE x \in S : \A y \in S : y <= x
Min(S) == CHOOSE x \in S : \A y \in S : x <= y

\* index of the first message of the file that message i of h belongs to
FileStart(h, i) ==
    LET ends == {j \in 1..(i - 1) : j <= Len(h) /\ h[j].last}
    IN  IF ends = {} THEN 1 ELSE Max(ends) + 1

\* indices of the messages that end a file, and their number
LastIdx(h) == {j \in 1..Len(h) : h[j].last}
NumLast(h) == Cardinality(LastIdx(h))

\* index of the message that ends the k-th file of h
EndOfFile(h, k) == CHOOSE j \in LastIdx(h) : Cardinality({i \in LastIdx(h) : i <= j}) = k

RECURSIVE SizeSum(_, _, _)
SizeSum(h, a, b) == IF a > b THEN 0 ELSE h[a].size + SizeSum(h, a + 1, b)

RECURSIVE Bytes(_, _, _)
Bytes(h, a, b) == IF a > b THEN <<>> ELSE Payload(a, h[a]) \o Bytes(h, a + 1, b)

\* the first non-empty filename among messages a..b, the empty one when there is none
FirstName(h, a, b) ==
    LET named == {j \in a..b : h[j].fname # NoName}
    IN  IF named = {} THEN NoName ELSE h[Min(named)].fname

NRecv == Len(recvd)
\* a streaming handler has rejected the chunk it received last
Rejected == rpc \in {"ScanStream", "ScanMultiple"} /\ result.code = "InvalidArgument"
\* first message of the file the handler is accumulating or has just completed
CurStart == IF pc = "recv" \/ (pc = "done" /\ result.code \in {"OK", "Internal"} /\ rpc = "ScanMultiple")
              THEN FileStart(recvd, NRecv + 1)
              ELSE FileStart(recvd, NRecv)
\* last message whose payload the accumulator holds
CurEnd == IF Rejected THEN NRecv - 1 ELSE NRecv

Accepted == IF Rejected THEN SubSeq(recvd, 1, NRecv - 1) ELSE recvd
\* the number of files received whole
NumFiles == NumLast(Accepted)

\* the k-th file of h: its reported filename and its bytes
FileName(h, k) == FirstName(h, FileStart(h, EndOfFile(h, k)), EndOfFile(h, k))
FileBytes(h, k) == Bytes(h, FileStart(h, EndOfFile(h, k)), EndOfFile(h, k))

\* C5: in a ScanMultiple session every file ended by an is_last chunk gets
\* and within the ceiling gets exactly one response: when the handler reads, or has ended without a send
\* failure, the number of responses is the number of files received; while a
\* file is being scanned or answered only that file is unanswered; and the
\* k-th response (the latest one, k = sentCount) carries the k-th file's filename.
C5_OneResponsePerFileInOrder ==
    rpc = "ScanMultiple" =>
        /\ (pc = "recv" \/ (pc = "done" /\ result.code # "SendError"))
               => sentCount = NumFiles
        /\ (pc \in {"scan", "select", "send"} \/ (pc = "done" /\ result.code = "SendError"))
               => sentCount = NumFiles - 1
        /\ sentCount > 0 => lastSent.filename = FileName(recvd, sentCount)

\* a session of two differently named files, one of them sent in two chunks,
\* closed by the client and fully answered
C5_Witness ==
    /\ rpc = "ScanMultiple" /\ pc = "done" /\ result.code = "OK"
    /\ NRecv = 3 /\ NumFiles = 2 /\ recvd[NRecv].last
    /\ sentCount = 2
    /\ FileName(recvd, 1) # NoName /\ FileName(recvd, 2) # NoName
    /\ FileName(recvd, 1) # FileName(recvd, 2)
    /\ lastSent.filename = FileName(recvd, 2)

\* outcomes of a scan attempt that are failures of the scan itself
ScanFailures == {"unavailable", "ERROR", "timeout"}

\* C6: in ScanMultiple a scan failure (daemon unavailable, daemon ERROR status,
\* timeout) never becomes the status of the RPC; it becomes a response with
\* status ERROR and the file's filename, after which the handler reads on with
\* an empty accumulator, and every file received has a scan call of its own.
C6_ScanFailureIsAResponse ==
    rpc = "ScanMultiple" =>
        /\ result.code # "DeadlineExceeded"
        /\ result.msg \notin {"scan failed", "scan error"}
        /\ (pc = "send" /\ outcome \in ScanFailures) =>
               /\ pending.status = "ERROR"
               /\ pending.filename = FirstName(recvd, CurStart, NRecv)
        /\ (pc = "recv" /\ sentCount > 0 /\ outcome \in ScanFailures) =>
               /\ lastSent.status = "ERROR"
               /\ lastSent.filename = FileName(recvd, sentCount)
               /\ result = NoStatus
               /\ buffer = Bytes(recvd, CurStart, NRecv)
        /\ pc \in {"recv", "select", "send"} => Len(scanned) = NumFiles

\* the first file's scan failed and was answered ERROR; the second file has
\* been ingested and scanned and its answer is about to be sent
C6_Witness ==
    /\ rpc = "ScanMultiple" /\ pc = "send" /\ ~ctxDone
    /\ sentCount = 1 /\ lastSent.status = "ERROR"
    /\ lastSent.message = "scan operation timed out"
    /\ Len(scanned) = 2
    /\ pending.status = "OK"

\* C7: ScanMultiple sends a file's response in the handler step that follows
\* that file's is_last chunk: a response is sent only while the last message
\* received is an is_last chunk and the client has not closed, no message is
\* read while a completed file is unanswered, and after a response the
\* handler is reading again.
C7_ResponseBeforeNextChunk ==
    [][rpc = "ScanMultiple" =>
         /\ sentCount' # sentCount =>
               /\ recvd' = recvd /\ recvd[NRecv].last
               /\ ~eof /\ ~eof'
               /\ sentCount' = NumFiles
               /\ pc' = "recv"
         /\ recvd' # recvd => sentCount = NumFiles
         /\ eof' # eof => sentCount = NumFiles]_vars

\* the first file is answered and a chunk of a later file has then been read,
\* the client still sending
C7_Witness ==
    /\ rpc = "ScanMultiple" /\ pc = "recv" /\ ~eof
    /\ sentCount = 1
    /\ NRecv = 2 /\ recvd[1].last /\ ~recvd[2].last
    /\ buffer # <<>>

\* the input ended while the accumulator held bytes no is_last chunk finalized
Unfinished == eof /\ NRecv > 0 /\ ~recvd[NRecv].last /\ buffer # <<>>

\* C8 as claimed: on end of input with an unfinished accumulator ScanStream
\* fails and returns no scan result, and ScanMultiple ends normally with the
\* unfinished file neither scanned nor answered.
C8_UnfinishedIsProtocolError ==
    (Unfinished /\ pc = "done") =>
        /\ rpc = "ScanStream" => (result.code # "OK" /\ sentCount = 0)
        /\ rpc = "ScanMultiple" =>
               (result.code = "OK" /\ sentCount = NumFiles
                    /\ Len(scanned) = NumFiles)

\* C8 amended: on end of input with an unfinished accumulator ScanStream takes
\* the end of input as the end of the file, hands the accumulated bytes to the
\* daemon and ends with that scan's outcome (a response for OK and FOUND),
\* and ScanMultiple ends normally with the unfinished file neither scanned
\* nor answered.
C8_UnfinishedScannedByScanStream ==
    Unfinished =>
        /\ rpc = "ScanStream" =>
               /\ pc \in {"scan", "select", "done"}
               /\ pc # "scan" => scanned = <<Bytes(recvd, 1, NRecv)>>
               /\ pc = "done" =>
                      /\ outcome \in {"OK", "FOUND"} /\ ~ctxDone
                             => (result.code = "OK" /\ sentCount = 1 /\ lastSent.status = outcome)
                      /\ result.code = "OK" => outcome \in {"OK", "FOUND"}
                      /\ result.code # "InvalidArgument"
        /\ rpc = "ScanMultiple" =>
               /\ pc = "done" /\ result.code = "OK"
               /\ sentCount = NumFiles
               /\ Len(scanned) = NumFiles

\* ScanStream answered OK for bytes whose chunks were never marked is_last
C8_Witness ==
    /\ rpc = "ScanStream" /\ Unfinished /\ pc = "done"
    /\ result.code = "OK" /\ sentCount = 1
    /\ scanned = <<buffer>>

\* C9: the filename reported for a file is the first non-empty filename among
\* that file's chunks, and empty when no chunk of the file carries one; this
\* holds of the stored filename while the file is accumulated, of the response
\* being built and of the response sent.
C9_FilenameFromFirstNamedChunk ==
    /\ (pc \in {"recv", "scan", "select", "send"})
           => filename = FirstName(recvd, CurStart, NRecv)
    /\ pc = "send" => pending.filename = FirstName(recvd, CurStart, NRecv)
    /\ (rpc = "ScanStream" /\ sentCount > 0)
           => lastSent.filename = FirstName(recvd, 1, NRecv)
    /\ (rpc = "ScanMultiple" /\ sentCount > 0)
           => lastSent.filename = FileName(recvd, sentCount)

\* a file whose first chunk has no filename and whose next two chunks carry
\* different ones was answered with the earlier of the two
C9_Witness ==
    /\ sentCount = 1 /\ NRecv = 3
    /\ recvd[1].fname = NoName /\ recvd[2].fname # NoName /\ recvd[3].fname # NoName
    /\ ~recvd[1].last /\ ~recvd[2].last
    /\ lastSent.filename = recvd[2].fname

\* C10: when ScanMultiple is reading after an is_last chunk the accumulator is
\* empty, whatever the scan's outcome; while it reads, counter, buffer and
\* filename are those of the current file's chunks alone; and the bytes
\* handed to the k-th scan are the bytes of the k-th file alone.
C10_AccumulatorResetPerFile ==
    rpc = "ScanMultiple" =>
        /\ (pc = "recv" /\ NRecv > 0 /\ recvd[NRecv].last)
               => (buffer = <<>> /\ filename = NoName /\ totalSize = 0)
        /\ pc = "recv" =>
               /\ totalSize = SizeSum(recvd, CurStart, NRecv)
               /\ buffer = Bytes(recvd, CurStart, NRecv)
               /\ filename = FirstName(recvd, CurStart, NRecv)
        /\ \A k \in 1..Len(scanned) :
               k <= NumFiles /\ scanned[k] = FileBytes(recvd, k)
        /\ Rejected => SizeSum(recvd, FileStart(recvd, NRecv), NRecv) > MaxContentLength

\* after a named, non-empty file whose scan failed, a second file has filled
\* the accumulator up to the ceiling on its own
C10_Witness ==
    /\ rpc = "ScanMultiple" /\ pc = "recv"
    /\ sentCount = 1 /\ lastSent.status = "ERROR" /\ lastSent.filename # NoName
    /\ scanned # <<>> /\ scanned[1] # <<>>
    /\ NRecv > 1 /\ recvd[NRecv].fname = NoName
    /\ totalSize = MaxContentLength /\ filename = NoName

\* =================================================================
\* Properties of performScan
\* =================================================================

\* C3: a call of performScan whose context was canceled before the call
\* returns the cancellation error (stated for the calls whose scan call was
\* started and whose timer has not fired, where the only other event of the
\* race is the daemon's completion).
C3_PreCanceledYieldsCanceled ==
    (psPc = "done" /\ psPreCanceled /\ psStarted /\ ~psTimerFired)
        => psRet = Ret("canceled", "", 0)

\* C4: when the timeout is shorter than any possible daemon response, the scan
\* call was started and the caller has not canceled, performScan returns the
\* ScanTimeoutError of the timeout it was given and no result; the return of
\* that error is possible as soon as the timer has fired, whatever the state
\* of the daemon's completion and of the drain goroutine, and the caller has
\* then received nothing from the response channel.
C4_ShortTimeoutYieldsTimeoutError ==
    /\ (psPc = "done" /\ psSlow /\ psStarted /\ ~psCtxDone)
           => psRet = Ret("timeout", "", psTimeout)
    /\ (psPc = "select" /\ psTimerFired) => ENABLED PsSelectTimeout
    /\ (psPc = "done" /\ psRet.kind = "timeout")
           => (psDrain # "none" /\ psTakenBy # "caller")

\* performScan has returned the timeout error while the daemon has not
\* completed and the drain goroutine is still running
C4_Witness ==
    /\ psPc = "done" /\ psSlow /\ ~psCtxDone
    /\ psRet = Ret("timeout", "", 1)
    /\ psResp = "pending"
    /\ psDrain = "running"

\* =================================================================
\* Properties of the REST handlers and of the unary gRPC operations
\* =================================================================
\* a REST scan handler has answered after performScan returned
ScanAnswered == hOp \in {"scan", "stream_scan"} /\ hPc = "done" /\ psPc = "done"

\* C11: respondScanError answers a ScanTimeoutError with 504 and status
\* "Scan timeout", a canceled caller context with 499, status "Client closed
\* request" and a message containing "canceled", and a ScanEngineError with 502,
\* status "Clamd service down" and the engine's description as message; each
\* such payload has a status and a message.
C11_RestErrorMapping ==
    ScanAnswered =>
        /\ psRet.kind = "timeout" =>
               /\ hResp.code = 504 /\ hResp.status = "Scan timeout"
               /\ Contains(hResp.message, "timed out")
        /\ psRet.kind = "canceled" =>
               /\ hResp.code = 499 /\ hResp.status = "Client closed request"
               /\ Contains(hResp.message, "canceled")
        /\ psRet.kind = "engine" =>
               /\ hResp.code = 502 /\ hResp.status = "Clamd service down"
               /\ hResp.message = Description
        /\ psRet.kind \in {"timeout", "canceled", "engine"} =>
               hResp.status # "" /\ hResp.message # <<>>

\* C12: a failure that is neither timeout, cancellation nor engine error (the
\* daemon being unreachable) is answered 502 with status "Clamd service down"
\* and the fixed message "Scanning service unavailable"; the text of the
\* underlying error (socket path, dial error) is not in the response.
C12_UnclassifiedFailureHidesCause ==
    (ScanAnswered /\ psRet.kind = "unavailable") =>
        /\ hResp.code = 502 /\ hResp.status = "Clamd service down"
        /\ hResp.message = <<"Scanning service unavailable">>
        /\ ~Contains(hResp.message, "dial error")
        /\ ~Contains(hResp.message, "socket path")

\* the status code documented for each failed outcome of a scan (SECURITY.md 309-318)
CodeOf(o) ==
    CASE o = "timeout" -> "DeadlineExceeded"
      [] o = "canceled" -> "Canceled"
      [] o = "ERROR" -> "Internal"
      [] o = "unavailable" -> "Internal"

\* the payload of the finished call is above the ceiling
AboveCeiling ==
    IF rpc = "ScanFile"
      THEN dataSize > MaxContentLength
      ELSE NRecv > 0 /\ SizeSum(recvd, FileStart(recvd, NRecv), NRecv) > MaxContentLength

ClaimedCategory(ret) ==
    CASE ret.kind = "result" -> IF ret.status = "FOUND" THEN "found" ELSE "ok"
      [] ret.kind = "timeout" -> "timeout"
      [] ret.kind = "engine" -> "engine_error"
      [] ret.kind = "canceled" -> "canceled"
      [] OTHER -> "error"

\* C14: the metrics category of a recorded scan is a function of (result,
\* error): found exactly for a result with status FOUND, ok for any other
\* result, timeout, engine_error and canceled for the matching error, error for
\* any other failure; the scan increments exactly the counter of its method and
\* that category, so a canceled request is not counted under error.
C14_MetricsCategory ==
    ScanAnswered =>
        LET method == IF hOp = "scan" THEN "rest_scan" ELSE "rest_stream_scan"
        IN  /\ ClaimedCategory(psRet) \in Categories
            /\ \A l \in Methods \X Categories :
                   scanRequestsTotal[l] = IF l = <<method, ClaimedCategory(psRet)>> THEN 1 ELSE 0
            /\ psRet.kind = "canceled" => scanRequestsTotal[<<method, "error">>] = 0

\* the declared length of a raw-body scan is missing, negative, zero or above
\* the ceiling
BadDeclaredLength == hSize <= 0 \/ hSize > MaxContentLength

\* the answer to a bad declared length, a function of the declared length alone
RejectionFor(cl) ==
    IF cl <= 0
      THEN Json(400, "", <<"Content-Length", "header is required and must be greater than 0">>)
      ELSE Json(400, "", TooLargeMessage)

\* C15: a raw-body scan whose declared length is missing, negative, zero or
\* above the ceiling is answered with a 4xx status that depends on the declared
\* length only, whatever the body holds; performScan is never entered, no
\* reader is handed to the daemon, and the in-flight gauge and the scan
\* counters keep their values.
C15_BadLengthRejectedEarly ==
    (hOp = "stream_scan" /\ BadDeclaredLength) =>
        /\ hPc = "done"
        /\ hResp = RejectionFor(hSize)
        /\ hResp.code \in 400..499
        /\ psPc = "idle" /\ ~psStarted /\ hReader = -1
        /\ scansInProgress = 0
        /\ \A l \in Methods \X Categories : scanRequestsTotal[l] = 0

\* a declared length one above the ceiling was rejected although the body
\* itself is within the ceiling
C15_Witness ==
    /\ hOp = "stream_scan" /\ hPc = "done"
    /\ hSize = MaxContentLength + 1
    /\ hBody > 0 /\ hBody <= MaxContentLength
    /\ hResp.code = 400

\* C16: both REST scan operations answer a size above the ceiling with status
\* 413 and a message containing "too large": handleScan for an uploaded file
\* larger than the ceiling, handleStreamScan for a declared Content-Length
\* larger than the ceiling.
C16_TooLargeIs413 ==
    /\ (hOp = "scan" /\ hFormOk /\ hSize > MaxContentLength) =>
           hResp.code = 413 /\ Contains(hResp.message, "too large")
    /\ (hOp = "stream_scan" /\ hSize > MaxContentLength) =>
           hResp.code = 413 /\ Contains(hResp.message, "too large")

\* number of body bytes the daemon can draw in this request: those of the
\* reader performScan passed to clam.ScanStream, once that call was made
DaemonBytes == IF psStarted THEN hReader ELSE 0

\* C17: in a raw-body scan the number of body bytes handed to the daemon is at
\* most the ceiling, and is the whole body when the body is within the
\* ceiling, whatever length the request declared.
C17_DaemonBytesWithinCeiling ==
    hOp = "stream_scan" =>
        /\ DaemonBytes <= MaxContentLength
        /\ psStarted => DaemonBytes = IF hBody <= MaxContentLength THEN hBody ELSE MaxContentLength

\* the declared length passed validation, the body is longer than declared and
\* longer than the ceiling, and the daemon's scan has started
C17_Witness ==
    /\ hOp = "stream_scan" /\ psStarted
    /\ hSize > 0 /\ hSize <= MaxContentLength
    /\ hBody > hSize /\ hBody > MaxContentLength
    /\ DaemonBytes = MaxContentLength

\* indices of the received messages whose bytes some scan call was given
ScannedMessages == {b[1] : b \in UNION {{s[k] : k \in DOMAIN s} : s \in {scanned[i] : i \in DOMAIN scanned}}}

\* C18: a payload answered as too large has had no scan call: the REST
\* handlers have not entered performScan, ScanFile and ScanStream have issued
\* no scan call at all, and ScanMultiple has issued scan calls only for the
\* files completed before, none of them holding a byte of the rejected file.
C18_TooLargeBeforeAnyScan ==
    /\ (hOp \in {"scan", "stream_scan"} /\ hResp.message = TooLargeMessage) =>
           psPc = "idle" /\ ~psStarted /\ hReader = -1
    /\ (rpc = "ScanFile" /\ result = RejectTooLarge) => scanned = <<>>
    /\ (rpc = "ScanStream" /\ Rejected) => scanned = <<>>
    /\ (rpc = "ScanMultiple" /\ Rejected) =>
           /\ Len(scanned) = NumFiles
           /\ \A i \in ScannedMessages : i < FileStart(recvd, NRecv)

\* ScanStream has rejected the chunk that took the file over the ceiling, after
\* accepting earlier chunks of it
C18_Witness ==
    /\ rpc = "ScanStream" /\ pc = "done" /\ Rejected
    /\ NRecv >= 2 /\ scanned = <<>>
    /\ result.msg = "file too large"

\* C19: ScanFile with an empty payload ends with InvalidArgument "file data is
\* required" and no response, without any scan call; the status differs from
\* the one of a too-large rejection (in its message: both carry the code
\* InvalidArgument), and an empty payload is never answered as too large.
C19_EmptyPayloadRejected ==
    (rpc = "ScanFile" /\ dataSize = 0) =>
        /\ pc = "done"
        /\ result = Status("InvalidArgument", "file data is required")
        /\ result # RejectTooLarge
        /\ result.msg # RejectTooLarge.msg
        /\ scanned = <<>> /\ outcome = ""
        /\ unaryResp = NoResponse

\* ScanFile was called with an empty payload and has returned
C19_Witness ==
    /\ rpc = "ScanFile" /\ dataSize = 0 /\ pc = "done"
    /\ result.code = "InvalidArgument"

\* C20: a health probe whose ping fails reports unhealthy on both transports:
\* handleHealthCheck answers 502 with a message containing "unavailable" and
\* sets the health gauge to 0, and answers 200 "ok" exactly when the ping
\* succeeded; GRPCServer.HealthCheck returns status "unhealthy" in a response,
\* with a nil error, and "healthy" exactly when the ping succeeded.
C20_UnreachableDaemonIsUnhealthy ==
    /\ (hOp = "health" /\ ping = "error") =>
           /\ hResp.code = 502
           /\ Contains(hResp.message, "unavailable")
           /\ healthCheckStatus = 0
    /\ (hOp = "health" /\ hResp.code = 200) => ping = "ok" /\ hResp.message = <<"ok">>
    /\ (hOp = "health" /\ ping = "ok") => hResp.code = 200
    /\ (rpc = "HealthCheck" /\ ping = "error") =>
           /\ unaryResp.status = "unhealthy"
           /\ result = Status("OK", "")
    /\ (rpc = "HealthCheck" /\ unaryResp.status = "healthy") => ping = "ok"
    /\ (rpc = "HealthCheck" /\ ping = "ok") => unaryResp.status = "healthy"

\* the REST health probe has run while the daemon was unreachable
C20_Witness ==
    /\ hOp = "health" /\ hPc = "done"
    /\ ping = "error"
    /\ hResp.code = 502


\* ------------------------------------------------------------- shutdown
\* the supervisor has gone through its shutdown, or the process has ended
ShutdownComplete == mainPc \in {"return", "exited"}

\* C21: requests in flight are cut short only once the grace deadline has
\* expired, whether the shutdown was started by a termination signal or by a
\* listener failure, and after shutdown neither transport takes requests.
C21_GraceThenForceStop ==
    /\ \A t \in Transports : cut[t] > 0 => deadline = "expired"
    /\ ShutdownComplete => \A t \in Transports : ~Accepting(t)


\* ---------------------------------------------------- escalation to main
\* the errors startGRPCServer and startRESTServer send
ListenerErrors == {"failed to listen", "REST server error", "gRPC server error"}

Count(seq, x) == Cardinality({i \in 1..Len(seq) : seq[i] = x})

\* a goroutine or main may be about to send on errChan
SendDue ==
    /\ proc = "running"
    /\ mainPc = "startGrpc" \/ httpSrv \in {"starting", "serving"} \/ grpcSrv = "serving"

\* C22: a listener that cannot be started puts exactly one error on errChan,
\* and there is room for it whenever it is due ("failed to listen" with no
\* gRPC server returned, "REST server error" for REST); nothing but listener
\* errors is ever on errChan, and the process ends with code 1 after start-up
\* only when a listener has failed, whatever failures requests have ended in.
C22_OnlyListenersEscalate ==
    /\ SendDue => Len(errChan) < ErrChanCap
    /\ proc = "running" /\ grpcSrv = "nil" => Count(errChan, "failed to listen") = 1
    /\ proc = "running" /\ httpSrv = "failed" => Count(errChan, "REST server error") = 1
    /\ Count(errChan, "failed to listen") = 1 => grpcSrv = "nil"
    /\ \A i \in 1..Len(errChan) : errChan[i] \in ListenerErrors
    /\ proc = "exit1" /\ stderr = <<>> => httpSrv = "failed" \/ grpcSrv \in {"nil", "failed"}

C22_Witness ==
    /\ proc = "running"
    /\ grpcSrv = "nil" /\ httpSrv = "serving"
    /\ errChan = <<"failed to listen">>
    /\ reqFailures > 0


\* ------------------------------------------------------- start-up checks
\* parseConfig has returned
ConfigLoaded == mainPc # "parseConfig" /\ stderr = <<>>

\* parseConfig has ended the process
ConfigFatal == proc = "exit1" /\ stderr # <<>> /\ Head(stderr) = "FATAL"

ListenerStarted == httpSrv # "none" \/ grpcSrv # "none" \/ errChan # <<>>

\* the settings the specification accepts
ValidSettings(set) ==
    /\ set.timeoutSeconds > 0
    /\ set.maxSize > 0
    /\ set.socket # ""
    /\ ValidPort(set.port)
    /\ ValidPort(set.grpcPort)

\* C23: configuration loading completes only when the scan timeout given is
\* positive, the ceiling is positive, the socket path is non-empty and both
\* ports are integers in 1..65535; under any other settings the process ends
\* with code 1 and a FATAL line, and no listener has been started.
C23_OnlyValidSettingsLoad ==
    /\ ConfigLoaded => ValidSettings(env)
    /\ mainPc # "parseConfig" /\ ~ValidSettings(env) => ConfigFatal /\ ~ListenerStarted


\* -------------------------------------------------- performScan outcomes
\* performScan returned what it received from the response channel
CompletedScan == psSite = "performScan" /\ psPc = "done" /\ psTakenBy = "caller"

\* C24: when the daemon completes the scan, performScan returns either a
\* result or an error: status ERROR gives a ScanEngineError with the daemon's
\* description and the elapsed time and no result; any other status is
\* returned unchanged in a ScanResult with its description, an elapsed time
\* that is not negative, and no error. No ScanResult has status ERROR.
C24_CompletionClassified ==
    /\ CompletedScan =>
        /\ psRet.kind = IF psStatus = "ERROR" THEN "engine" ELSE "result"
        /\ psRet.status = psStatus
        /\ psRetInfo.description = psDesc
        /\ psRetInfo.elapsed = psNow - psStartTime
        /\ psRetInfo.elapsed >= 0
    /\ psRet.kind = "result" => psRet.status # "ERROR"

C24_Witness ==
    /\ CompletedScan
    /\ psStatus = "ERROR" /\ psRet.kind = "engine"
    /\ psRetInfo = [description |-> "size limit exceeded", elapsed |-> 1]
    /\ psStartTime = 1


\* ------------------------------------------------------- abandoned waits
\* the wait was given up on a timeout or a cancellation
Abandoned == psPc = "done" /\ psRet.kind \in {"timeout", "canceled"}

\* the goroutine that reads the daemon's answer is blocked sending it
SenderBlocked == psResp = "ready"

\* C25: whenever a scan wait was abandoned, in performScan or in ScanFile,
\* ScanStream or scanData, and the daemon's answer is waiting to be sent, the
\* answer is received by a drain and the sending goroutine finishes.
C25_AbandonedWaitIsDrained == (Abandoned /\ SenderBlocked) ~> (psResp = "closed")


\* --------------------------------------------- readers of the response channel
\* who may receive from the response channel in this state
Consumers ==
    (IF psPc = "select" THEN {"caller"} ELSE {}) \cup
    (IF psDrain = "running" THEN {"drain"} ELSE {})

\* C26: the response channel of a scan attempt has at most one reader at any
\* time; the caller receives at most one value from it, and none once a
\* timeout or a cancellation has resolved the race, after which only the drain
\* reads; what the drain took is never what the caller returned.
C26_SingleConsumer ==
    /\ Cardinality(Consumers) <= 1
    /\ psCallerRecv <= 1
    /\ psCallerRecv = 1 =>
        /\ psTakenBy = "caller" /\ psDrain = "none"
        /\ psRet.kind \in {"result", "engine"}
    /\ psSite = "performScan" /\ Abandoned =>
        /\ psCallerRecv = 0 /\ psTakenBy # "caller"
        /\ psDrain # "none"
    /\ psTakenBy = "drain" => psRet.kind \in {"timeout", "canceled"}

C26_Witness ==
    /\ psSite = "performScan" /\ Abandoned
    /\ psTakenBy = "drain" /\ psDrain = "finished"
    /\ psCallerRecv = 0


\* --------------------------------------------------------- blocking waits
\* the session is blocked: in stream.Recv(), or in the select on the scan
Waiting == rpc = "ScanStream" /\ pc \in {"recv", "select"}

\* C27: every blocking wait of a streaming scan, for the next chunk and for
\* the daemon's completion, is ended by the scan timeout as well as by the
\* caller's cancellation, so that no wait lasts once the timeout has passed.
C27_EveryWaitEnds == Waiting ~> ~Waiting


\* ------------------------------------------------------- one scan attempt
\* C28: a call of performScan makes at most one scan call on the shared
\* handle, exactly one once it is past the call, and never a second; when
\* the call cannot be started performScan returns at once an error that wraps
\* the cause as "clamd unavailable", with no result, without having waited
\* for the response, the timer or the cancellation.
C28_OneAttemptNoRetry ==
    /\ psCalls <= 1
    /\ psPc \in {"select", "done"} => psCalls = 1
    /\ psRet.kind = "unavailable" =>
        /\ psPc = "done"
        /\ Contains(ErrorText(psRet), "clamd unavailable")
        /\ Contains(ErrorText(psRet), "dial error")
        /\ ~psStarted /\ psResp = "none"
        /\ ~psTimerFired /\ psDrain = "none" /\ psCallerRecv = 0
    /\ psPc = "done" /\ ~psStarted => psRet.kind = "unavailable"

C28_Witness ==
    /\ psSite = "performScan" /\ psPc = "done"
    /\ psRet.kind = "unavailable"
    /\ psCalls = 1
    /\ psCtxDone


\* ------------------------------------------------- the shared daemon handle
\* the goroutines whose last getClamdClient returned after the latest reset
Current == {g \in Goroutines : gRet[g].called /\ gRet[g].epoch = resets}

\* C29: between two resets the handle is constructed once, however the
\* first calls of getClamdClient interleave: every call returns an instance
\* that is not nil, and all calls that returned since the last reset got the
\* same instance, the one clamdClient holds.
C29_OneInstanceForAll ==
    /\ built <= 1
    /\ \A g \in Goroutines : gRet[g].called => gRet[g].handle # NoClient
    /\ \A g, h \in Current : gRet[g].handle = gRet[h].handle
    /\ \A g \in Current : gRet[g].handle = clamdClient
    /\ \A g \in Goroutines : gPc[g] = "getReturn" => clamdClient # NoClient /\ built = 1

C29_Witness ==
    /\ resets = 0
    /\ Current = Goroutines
    /\ \A g \in Goroutines : gRet[g].handle = clamdClient
    /\ clamdClient.id = 1 /\ handles = 1


\* C30: a getClamdClient that follows a reset returns a handle constructed
\* after that reset, from the socket path configured when it is constructed,
\* so that a path changed before the reset is the one used; with resets and
\* calls interleaved no call returns nil and each reset is followed by at
\* most one construction.
C30_ResetRebuilds ==
    /\ \A g \in Goroutines : gRet[g].called =>
        /\ gRet[g].handle.id > 0
        /\ gRet[g].handle.epoch = gRet[g].epoch
    /\ \A g \in Current : ~swapped => gRet[g].handle.socket = config.ClamdUnixSocket
    /\ clamdOnce => clamdClient.id > 0 /\ clamdClient.epoch = resets /\ built = 1
    /\ ~clamdOnce => built = 0
    /\ ~clamdOnce /\ resets > 0 => clamdClient = NoClient

C30_Witness ==
    /\ resets = 1 /\ ~swapped
    /\ config.ClamdUnixSocket = "/tmp/other.ctl"
    /\ gRet[1].called /\ gRet[1].epoch = 0 /\ gRet[1].handle.socket = "/run/clamav/clamd.ctl"
    /\ gRet[2].called /\ gRet[2].epoch = 1 /\ gRet[2].handle.socket = "/tmp/other.ctl"
    /\ gRet[2].handle.id = gRet[1].handle.id + 1


\* ------------------------------------------------------------------ ping
\* C31: a ping, whether it succeeds or fails, leaves the cached handle and
\* the state of its one-time initialization as they were (and only the health
\* operations ping, never a scan path).
C31_PingLeavesHandleUnchanged ==
    [][(\E g \in Goroutines, up \in BOOLEAN : pingClamd(g, up))
         => UNCHANGED <<clamdClient, clamdOnce>>]_vars


\* ------------------------------------------------- the scans-in-flight gauge
\* a scan attempt is in flight: performScan is running for a REST handler, or
\* a gRPC operation waits in its select for the daemon
AttemptInFlight == hPc = "scanning" \/ pc = "select"

\* C32: the scans-in-flight gauge counts each single scan attempt on every
\* path, REST upload, REST raw body, gRPC unary, gRPC client-streaming and each
\* file of ScanMultiple: it is one above its previous value while the attempt
\* runs, back at that value afterwards, and never negative.
C32_GaugeAroundEachAttempt ==
    /\ scansInProgress >= 0
    /\ AttemptInFlight => scansInProgress = 1
    /\ ~AttemptInFlight => scansInProgress = 0


\* ------------------------------------------------------- concurrent scans
\* C33: no lock serializes scans: a scan that waits for the daemon holds no
\* lock, and clamdMu is taken by a scan only for the one-time construction
\* of the handle, never once the handle has been constructed.
C33_NoLockPerScan ==
    /\ [](\A g \in Goroutines : gPc[g] = "scanWait" => clamdMu # g)
    /\ [][\A g \in Goroutines : ScanLock(g) => ~clamdOnce]_vars


\* C34: two concurrent streaming sessions share no accumulator state. Every
\* step is a step of one session: it leaves the other session's variables,
\* responses and status as they were, and the stepping session's next
\* variables, responses and status are computed from that session's own
\* variables, the message it receives and the daemon's verdict on its own
\* bytes. So what a session answers is a function of its own messages and
\* verdicts alone, however the two sessions interleave.
OwnStep(i, old, new) ==
    \/ \E kind \in {"ScanStream", "ScanMultiple"} :
          old.kind = "none" /\ new = [NoSession EXCEPT !.kind = kind, !.pc = "recv"]
    \/ \E c \in SessionChunkSet, v \in ScanVerdicts : new = RecvStep(old, SessionRequest(i, c), v)
    \/ \E v \in ScanVerdicts : new = EOFStep(old, v)

ExitPaths == {"result", "engine", "timeout", "canceled", "unavailable"}

C35_DoneClosedOncePerAttempt ==
    /\ psPc = "idle" => psDone = NoDone
    /\ psPc \in {"call", "select"} => psDone.open /\ psDone.closes = 0
    /\ psPc = "done" => /\ psRet.kind \in ExitPaths
                        /\ ~psDone.open
                        /\ psDone.closes = 1

\* scanData has returned on its timeout while the daemon had not answered
C35_Witness ==
    /\ psPc = "done" /\ psSite = "scanData" /\ psRet.kind = "timeout"
    /\ psResp = "pending" /\ psDone.closes = 1


\* C36: in ScanMultiple a message that takes its file over the ceiling ends
\* the session with InvalidArgument. The step that rejects it sends nothing
\* and leaves the responses sent for earlier files as they are, and after it
\* the session does nothing more, so neither the oversized file nor any file
\* after it gets a response. A file whose scan times out is answered with an
\* ERROR response instead, and the session goes on receiving.
Crosses(i, c) ==
    /\ session[i].pc = "recv"
    /\ ExceedsLimit(session[i].totalSize, c.size)
    /\ \E v \in ScanVerdicts : session'[i] = RecvStep(session[i], SessionRequest(i, c), v)

ScanTimedOut(i) ==
    /\ session'[i].sentCount = session[i].sentCount + 1
    /\ session'[i].lastSent.message = "scan operation timed out"

C37_StopsAtFirstLast ==
    rpc = "ScanStream" =>
        /\ \A j \in 1..Len(recvd) : recvd[j].last => j = Len(recvd)
        /\ totalSize <= SizeSum(recvd, 1, Len(recvd))
        /\ Len(scanned) <= 1
        /\ Len(scanned) = 1 => /\ scanned[1] = Bytes(recvd, 1, Len(recvd))
                               /\ Len(scanned[1]) = totalSize
        /\ sentCount <= 1
        /\ pc # "done" => sentCount = 0 /\ result = NoStatus
        /\ pc = "done" => \/ sentCount = 1 /\ result.code = "OK"
                          \/ sentCount = 0 /\ result.code \notin {"OK", "none"}

\* the call has answered after an is_last message although the client could have sent more
C37_Witness ==
    /\ rpc = "ScanStream" /\ pc = "done" /\ sentCount = 1 /\ result.code = "OK"
    /\ Len(recvd) = 2 /\ recvd[2].last /\ Len(recvd) < MaxChunks
    /\ Len(scanned) = 1


\* C38: the streaming operations have no test for an empty file. When a file
\* of ScanStream or ScanMultiple is complete with no bytes accumulated (chunks
\* of zero bytes, or for ScanStream a stream closed before any chunk), the
\* empty byte sequence is handed to the daemon, a verdict the daemon gives is
\* what the file is answered with, and no InvalidArgument status results;
\* ScanFile alone ends an empty payload with "file data is required".
EmptyFileComplete ==
    /\ rpc \in {"ScanStream", "ScanMultiple"}
    /\ pc \in {"scan", "select"}
    /\ buffer = <<>> /\ totalSize = 0

C38_EmptyFileIsScanned ==
    [][/\ EmptyFileComplete =>
            /\ (pc = "scan" /\ pc' # "scan")
                  => /\ scanned' = Append(scanned, <<>>)
                     /\ pc' = "select" \/ outcome' = "unavailable"
            /\ (pc = "select" /\ pc' # "select" /\ outcome' \in {"OK", "FOUND"} /\ ~ctxDone)
                  => IF rpc = "ScanStream"
                       THEN /\ lastSent' = ScanResponse(outcome', filename)
                            /\ sentCount' = sentCount + 1
                            /\ result'.code = "OK"
                       ELSE /\ pending' = ScanResponse(outcome', filename)
                            /\ result' = result
            /\ result'.code # "InvalidArgument"
       /\ result' = RejectEmpty => rpc' = "ScanFile" /\ dataSize' = 0]_vars

\* ScanStream, closed by the client before any chunk, has answered with the daemon's verdict
C38_Witness ==
    /\ rpc = "ScanStream" /\ recvd = <<>> /\ eof
    /\ scanned = <<<<>>>> /\ pc = "done"
    /\ sentCount = 1 /\ lastSent.status = "OK" /\ result.code = "OK"


\* ------------------------------------------------- shutdown after a signal
\* main has taken the signal from sigChan and is in its shutdown code
InShutdown == mainPc \in {"shutdownRest", "waitRest", "shutdownGrpc", "waitGrpc", "return"}

\* "All servers stopped" is logged and main returns
AllServersStopped == mainPc = "exited" /\ proc = "exit0"

\* C39: after main has taken a termination signal the shutdown is sequential
\* under the one deadline set at that moment: GracefulStop is started only
\* after httpSrv.Shutdown has returned, requests are cut only once that
\* deadline has expired, the gRPC server is force-stopped only then, and main
\* always goes on to "All servers stopped", whether or not the requests in
\* flight ever finish. With the gRPC transport disabled no gRPC server exists
\* at any time and only the REST server is shut down.
C39_SequentialShutdownEnds ==
    /\ [](grpcSrv = "draining" => httpSrv = "closed" /\ deadline # "none")
    /\ [](InShutdown => deadline # "none")
    /\ [](mainPc \in {"shutdownRest", "waitRest"} => grpcSrv \notin {"draining", "stopped"})
    /\ [](~config.EnableGRPC /\ mainPc # "parseConfig" => grpcSrv = "none")
    /\ [][/\ deadline # "none" => deadline' # "none"
          /\ deadline = "expired" => deadline' = "expired"
          /\ (InShutdown /\ cut' # cut) => deadline = "expired"
          /\ (InShutdown /\ grpcSrv # "stopped" /\ grpcSrv' = "stopped" /\ inflight["grpc"] > 0)
                => (deadline = "expired" /\ cut'["grpc"] = cut["grpc"] + inflight["grpc"])
          /\ (mainPc = "shutdownGrpc" /\ grpcSrv = "none") => mainPc' \in {"shutdownGrpc", "return"}]_vars
    /\ (InShutdown ~> AllServersStopped)

\* main has ended its shutdown although a request of each transport never finished
C39_Witness ==
    /\ AllServersStopped
    /\ cut["rest"] = 1 /\ cut["grpc"] = 1
    /\ deadline = "expired" /\ httpSrv = "closed" /\ grpcSrv = "stopped"


\* C40: once the caller has canceled a ScanMultiple session the handler
\* terminates. A cancellation that arrives during a file's scan wait ends the
\* wait without an answer of the daemon, and from then on the handler only
\* goes from the wait to the send and from the send to its return: it sends
\* no response, receives no further message and makes no further scan.
CanceledInScan == rpc = "ScanMultiple" /\ ctxDone /\ pc \in {"select", "send"}

C40_CanceledSessionEnds ==
    /\ [][CanceledInScan =>
            /\ pc = "select" => pc' \in {"select", "send"}
            /\ pc = "send" => pc' \in {"send", "done"}
            /\ (pc = "send" /\ pc' = "done") => result'.code \notin {"OK", "none"}
            /\ UNCHANGED <<recvd, scanned, sentCount, lastSent>>]_vars
    /\ ((rpc = "ScanMultiple" /\ ctxDone) ~> (pc = "done"))

\* the wait of the second file was abandoned on cancellation, with no answer
\* of the daemon, and the failed send ended the session
C40_Witness ==
    /\ rpc = "ScanMultiple" /\ ctxDone /\ pc = "done"
    /\ outcome = "canceled" /\ result.code = "SendError"
    /\ Len(scanned) = 2 /\ sentCount = 1 /\ Len(recvd) < MaxChunks

====
